---- MODULE Spec2Model ----
(***************************************************************************)
(* RecordingThread (src/recordingthread.cpp), the part of MonitorPage       *)
(* (src/unnamed/part_000) that drives it, StorageManager (src/homepage.h),  *)
(* which MonitorPage asks for space before it records, and the camera      *)
(* wrapper (src/v4l2_wrapper.c).                                           *)
(*                                                                         *)
(* Two threads: the caller (GUI) thread, which runs startRecording,        *)
(* stopRecording, addFrameToQueue, the destructor and the MonitorPage      *)
(* slots, and the worker thread, which runs RecordingThread::run.  Every   *)
(* action is one step of one thread between two points where the other     *)
(* thread can observe or change shared state.                              *)
(*                                                                         *)
(* Spec     : RecordingThread driven by an arbitrary single-threaded        *)
(*            client of its public interface.                              *)
(* AppSpec  : RecordingThread driven by MonitorPage's slots.               *)
(* FairAppSpec : AppSpec with the worker thread scheduled fairly.          *)
(* PageSpec : MonitorPage and its StorageManager on a volume that is at    *)
(*            the free-space threshold.                                    *)
(* StorageSpec : StorageManager alone, driven by a client, on any volume.  *)
(* AutoCheckSpec : StorageManager alone with its automatic check.          *)
(* CameraSpec : v4l2_wrapper.c driven by a client of its interface, with   *)
(*            a driver that can fail every call.                           *)
(* ConvertSpec : rgb565_to_rgb888 applied to every pixel value.            *)
(* CascadeSpec : PageSpec on volumes whose oldest date directory is large, *)
(*            empty or not a date.                                         *)
(* CaptureSpec : v4l2_wrapper.c after a successful v4l2_init, with         *)
(*            v4l2_get_frame.                                              *)
(* RenameSpec : the rename of the segment file when a recording stops.     *)
(* SessionSpec : AppSpec with MonitorPage::stopCapture.                    *)
(***************************************************************************)
EXTENDS Integers, Sequences, FiniteSets, TLC

\* ---------------------------------------------------------------- bounds
MaxStarts == 2      \* initRecorder runs per behaviour
MaxFrames == 2      \* frames accepted by addFrameToQueue per behaviour
MaxOpens == 2       \* descriptors open() returns per behaviour

\* ------------------------------------------------------------ input sets
NoFrame == [id |-> 0, seg |-> 0]
NoArgs  == [path |-> 0, width |-> 0, height |-> 0, data |-> "none", size |-> 0,
            interval |-> 0]

\* (filePath, width, height) triples a client passes to startRecording
StartInputs == { <<1, 2, 2>>, <<2, 4, 2>> }
\* frameData pointers and sizes a client passes to addFrameToQueue
DataInputs == { "null", "buf" }
SizeInputs == { -1, 0, 24 }
\* MonitorPage's (m_frameWidth, m_frameHeight) once a frame has been captured
FrameSize == <<4, 2>>

HandleNames == { "m_formatContext", "m_codecContext", "m_swsContext",
                 "m_frame", "m_packet" }
\* a handle is a null pointer, a pointer to a live object, or a pointer to
\* an object that has been freed (dangling)
HandleStates == { "null", "live", "freed" }

VARIABLES
  \* --- RecordingThread members
  m_isRecording, m_shouldExit, m_frameCount, m_filePath, m_width, m_height,
  handles,            \* the five FFmpeg handles
  m_segmentTimer,     \* [exists, active]
  m_frameQueue, m_mutex, m_queueMutex,
  \* --- MonitorPage members
  mp_isRecording, errPending,
  \* --- caller thread: position, return stack, arguments, return value
  mpc, mstack, args, ret,
  \* --- worker thread: position and locals of run()/processFrame()
  wpc, frameData, isRecording, pts,
  \* --- what the outside world sees
  segState,           \* per initRecorder run: "unused", "failed", "open", "finalized"
  curSeg,             \* the run whose container m_formatContext points to
  nInit,              \* initRecorder runs so far
  ptsLog,             \* per segment: <<frame id, pts>> of every frame sent to its codec
  nAccepted,          \* per segment: frames addFrameToQueue enqueued while it was recorded
  nSent, nDropped,    \* frames passed to avcodec_send_frame / deleted without being sent
  leaked, memErr,     \* an object became unreachable / a freed object was used
  lastError,          \* last recordError emitted
  \* --- more MonitorPage members
  m_recordStatusLabel,  \* "idle", "recording", "recordingLow" (text with the low-space note)
  m_currentVideoFile,   \* file of the segment MonitorPage last started (0: empty)
  \* --- StorageManager members and its signal connections
  m_minFreeSpacePercent, m_checkTimer,
  slotsConnected,     \* MonitorPage's slots are connected to lowStorageSpace / cleanupCompleted
  sigLog,             \* signals emitted by the StorageManager call under way or last made
  lastCheck,          \* what the most recent checkStorageSpace returned
  \* --- the storage volume
  storage,            \* QStorageInfo: [valid, ready, bytesAvailable, bytesTotal]
  dirs,               \* names of the immediate subdirectories of the storage root
  renamed,            \* the file m_currentVideoFile names has been given its final name
  \* --- statics of v4l2_wrapper.c
  v4l2_fd, buf_infos, frm_width, frm_height, is_capturing,
  \* --- the kernel's side of the camera
  openFds,            \* descriptors open() has returned that are not closed
  mappings,           \* buffers mapped into the process: [fd, index]
  streaming,          \* descriptors on which VIDIOC_STREAMON is in effect
  reqbuf,             \* buffers the driver granted to the last VIDIOC_REQBUFS
  bufOps,             \* <<operation, index>> made on buffers of the open device
  nOpens,             \* descriptors open() has returned so far
  vcall, vret,        \* the v4l2_* function that returned last, and its result
  queued,             \* buffers the driver owns (VIDIOC_QBUF made, not dequeued): <<fd, index>>
  dqbuf,              \* v4l2_get_frame's dqbuf.index (-1: none dequeued) and errno at its return
  frame,              \* the caller's frame: [data, width, height] as v4l2_get_frame left them
  \* --- rgb565_to_rgb888
  src, dst,           \* the pixels converted and the bytes written
  \* --- the segment MonitorPage::stopRecording gives its final name
  segment             \* [m_isRecording, m_recordingStartTime, recordingEndTime,
                      \*  m_currentVideoFile, files, log]

rtVars  == <<m_isRecording, m_shouldExit, m_frameCount, m_filePath, m_width, m_height>>
mtxVars == <<m_mutex, m_queueMutex>>
mVars   == <<mpc, mstack, args, ret>>
wVars   == <<wpc, frameData, isRecording, pts>>
segVars == <<segState, curSeg, nInit>>
obsVars == <<ptsLog, nAccepted, nSent, nDropped, leaked, memErr, lastError>>
mpVars  == <<mp_isRecording, m_recordStatusLabel, m_currentVideoFile>>
smVars  == <<m_minFreeSpacePercent, m_checkTimer, slotsConnected, sigLog, lastCheck>>
fsVars  == <<storage, dirs, renamed>>
appVars == <<rtVars, handles, m_segmentTimer, m_frameQueue, mtxVars,
             mpVars, errPending, mVars, wVars, segVars, obsVars, smVars, fsVars>>
camVars == <<v4l2_fd, buf_infos, frm_width, frm_height, is_capturing,
             openFds, mappings, streaming, reqbuf, bufOps, nOpens, vcall, vret,
             queued, dqbuf, frame, src, dst>>
vars == <<appVars, camVars, segment>>

Segs == 1..MaxStarts

RECURSIVE SumTo(_, _)
SumTo(f, n) == IF n = 0 THEN 0 ELSE f[n] + SumTo(f, n - 1)
TotalAccepted == SumTo(nAccepted, MaxStarts)

NullHandles == [n \in HandleNames |-> "null"]
AllHandlesNull == handles = NullHandles

\* QThread::isRunning()
isRunning == wpc \notin {"notStarted", "done"}

\* QWaitCondition::wakeAll / wakeOne: the worker is the only thread that ever
\* waits on m_condition, so both wake at most that one waiter.
Wake(w) == CASE w = "idleWait"  -> "idleWoken"
             [] w = "frameWait" -> "frameWoken"
             [] OTHER           -> w

\* ------------------------------------------- IEEE-754 double arithmetic
\* checkStorageSpace computes static_cast<double>(availableBytes) / totalBytes
\* * 100.0 in binary64.  A positive double is [m, e]: m its 53-bit
\* significand (2^52 <= m < 2^53) and e the exponent of its leading bit, so
\* that the value is m * 2^(e - 52); 0.0 is Zero.  Significands are written
\* in base 2^9, most significant digit first.  Every operation rounds to
\* nearest, ties to even.
Binary64 == [bits |-> 53, limb |-> 9]
Limb == 2 ^ Binary64.limb
Zero == [m |-> <<>>, e |-> 0]

\* L shifted right by s < 9 bits (same number of digits)
ShiftRight(L, s) ==
  [i \in 1..Len(L) |->
     (L[i] \div 2 ^ s)
       + (IF i > 1 THEN (L[i - 1] % 2 ^ s) * 2 ^ (Binary64.limb - s) ELSE 0)]

\* L + 1 modulo Limb^Len(L)
Increment(L) ==
  [i \in 1..Len(L) |->
     IF \A j \in (i + 1)..Len(L) : L[j] = Limb - 1
       THEN (L[i] + 1) % Limb ELSE L[i]]

\* round the 54-bit number Q (leading bit set; sticky: a non-zero remainder
\* was cut off below it) with exponent e to a 53-bit significand
RoundNearestEven(Q, e, sticky) ==
  LET guard == Q[Len(Q)] % 2
      M     == ShiftRight(Q, 1)
      up    == Increment(M)
  IN  IF guard = 1 /\ (sticky \/ M[Len(M)] % 2 = 1)
        THEN IF up[1] >= 2 ^ (Binary64.bits % Binary64.limb)
               THEN [m |-> ShiftRight(up, 1), e |-> e + 1]
               ELSE [m |-> up, e |-> e]
        ELSE [m |-> M, e |-> e]

\* scale n/d by a power of two so that d <= n < 2d
RECURSIVE Normalize(_, _, _)
Normalize(n, d, e) ==
  IF n >= 2 * d THEN Normalize(n, 2 * d, e + 1)
  ELSE IF n < d THEN Normalize(2 * n, d, e - 1)
  ELSE [n |-> n, d |-> d, e |-> e]

\* the next k base-2^9 digits of r/d (r < d), and the remainder left
RECURSIVE QuotientDigits(_, _, _)
QuotientDigits(r, d, k) ==
  IF k = 0 THEN [digits |-> <<>>, r |-> r]
  ELSE LET rest == QuotientDigits((r * Limb) % d, d, k - 1)
       IN  [digits |-> <<(r * Limb) \div d>> \o rest.digits, r |-> rest.r]

\* double(a) / double(t) for integers a >= 0 and t > 0
DoubleDiv(a, t) ==
  IF a = 0 THEN Zero
  ELSE LET nd == Normalize(a, t, 0)
           q  == QuotientDigits((nd.n * 2 ^ 8) % nd.d, nd.d, 5)
       IN  RoundNearestEven(<<(nd.n * 2 ^ 8) \div nd.d>> \o q.digits,
                            nd.e, q.r # 0)

\* L * k + c, one digit longer than L
RECURSIVE Times(_, _, _)
Times(L, k, c) ==
  IF L = <<>> THEN <<c>>
  ELSE LET v == L[Len(L)] * k + c
       IN  Times(SubSeq(L, 1, Len(L) - 1), k, v \div Limb) \o <<v % Limb>>

\* f * 100.0
DoubleTimes100(f) ==
  IF f = Zero THEN Zero
  ELSE LET P == Times(f.m, 100, 0)
           s == IF P[1] >= 32 THEN 6 ELSE 5
       IN  RoundNearestEven(Tail(ShiftRight(P, s)), f.e + s + 1,
                            P[Len(P)] % 2 ^ s # 0)

RECURSIVE LimbsValue(_)
LimbsValue(L) ==
  IF L = <<>> THEN 0
  ELSE LimbsValue(SubSeq(L, 1, Len(L) - 1)) * Limb + L[Len(L)]

\* the integer part of f, for f < 2^31
DoubleFloor(f) ==
  IF f = Zero \/ f.e < 0 THEN 0
  ELSE LET sh == (Binary64.bits - 1) - f.e
       IN  LimbsValue(ShiftRight(SubSeq(f.m, 1, Len(f.m) - sh \div Binary64.limb), sh % Binary64.limb))

\* f < n for an integer n: f < n exactly when floor(f) < n
DoubleLess(f, n) == DoubleFloor(f) < n

\* availablePercent of checkStorageSpace
availablePercent(availableBytes, totalBytes) ==
  DoubleTimes100(DoubleDiv(availableBytes, totalBytes))

\* ------------------------------------------------ StorageManager (homepage.h)
\* A directory name is the sequence of its UTF-16 code units.
Str(ds) == [i \in 1..Len(ds) |-> 48 + ds[i]]      \* a string of decimal digits
D20221231 == Str(<<2, 0, 2, 2, 1, 2, 3, 1>>)
D20230101 == Str(<<2, 0, 2, 3, 0, 1, 0, 1>>)
D20230215 == Str(<<2, 0, 2, 3, 0, 2, 1, 5>>)
Digits7   == Str(<<2, 0, 2, 1, 0, 1, 0>>)         \* "2021010"
Digits9   == Str(<<2, 0, 2, 0, 0, 1, 0, 1, 7>>)   \* "202001017"
NotADate  == <<110, 111, 116, 97, 100, 97, 116, 101>>   \* "notadate"
\* 20190101 written with Arabic-Indic digits
Arabic8   == [i \in 1..8 |-> 1632 + <<2, 0, 1, 9, 0, 1, 0, 1>>[i]]
EmptyName == <<>>                                  \* QString()

\* the subdirectories a storage root can hold, with the bytes of their files
DirBytes ==
  [n \in {D20221231, D20230101, D20230215, Digits7, Digits9, NotADate,
          Arabic8} |->
     CASE n = D20221231 -> 5
       [] n = D20230101 -> 0
       [] n = D20230215 -> 1
       [] OTHER         -> 2]
DirNames == DOMAIN DirBytes
\* the directory MonitorPage::startRecording records into (today's date)
TodayDir == D20230215

\* what QStorageInfo can report for the storage path
VolumeInputs ==
  { [valid |-> v, ready |-> r, bytesAvailable |-> a, bytesTotal |-> t] :
      v \in BOOLEAN, r \in BOOLEAN, a \in {0, 9, 29, 50}, t \in {0, 50, 100} }
\* sets of subdirectories tried together with every volume
DirInputs == { {}, {NotADate, Digits9}, {D20230101, D20221231, NotADate} }
\* arguments of setMinFreeSpacePercent
PercentInputs == { -1, 0, 10, 29, 58, 100, 101 }
\* arguments of startAutoCheck (milliseconds)
IntervalInputs == { -1, 0, 1, 600000 }
\* volumes and sets of subdirectories the automatic check is tried on
AutoCheckVolumes ==
  { [valid |-> TRUE, ready |-> TRUE, bytesAvailable |-> a, bytesTotal |-> 100] :
      a \in {4, 9, 50} }
  \cup { [valid |-> FALSE, ready |-> FALSE, bytesAvailable |-> 0,
          bytesTotal |-> 0] }
AutoCheckDirs ==
  DirInputs \cup { {Arabic8, NotADate}, {D20221231, Digits7},
                   {D20221231, D20230101, D20230215, Digits7, Digits9,
                    NotADate, Arabic8} }

\* what removing a directory can do: QDir::removeRecursively succeeds or
\* fails, or the directory is gone before QDir::exists() looks for it
RemovalOutcomes == { "removed", "removeFailed", "vanished" }

\* QChar::isDigit, which QRegExp's \d stands for: the decimal digits of
\* any script (here ASCII and Arabic-Indic)
isDigit(c) == c \in 48..57 \/ c \in 1632..1641

\* QRegExp("^\\d{8}$").exactMatch(dirName)
exactMatch(dirName) ==
  Len(dirName) = 8 /\ \A i \in 1..Len(dirName) : isDigit(dirName[i])

\* QString::operator< : lexicographic order of the code units
StringLess(x, y) ==
  \E i \in 1..(Len(x) + 1) :
    /\ i - 1 <= Len(y)
    /\ \A j \in 1..(i - 1) : x[j] = y[j]
    /\ IF i > Len(x) THEN Len(y) >= i
       ELSE i <= Len(y) /\ x[i] < y[i]

\* getOldestDateDir that takes the last element of the sorted list
getOldestDateDir_TakesLast(dateDirs) ==
  LET validDateDirs == { n \in dateDirs : exactMatch(n) }
  IN  IF validDateDirs = {} THEN EmptyName
      ELSE CHOOSE n \in validDateDirs :
             \A other \in validDateDirs : ~StringLess(n, other)

\* the first element of the sorted list of the 8-digit names, or QString()
getOldestDateDir(dateDirs) ==
  LET validDateDirs == { n \in dateDirs : exactMatch(n) }
  IN  IF validDateDirs = {} THEN EmptyName
      ELSE CHOOSE n \in validDateDirs :
             \A other \in validDateDirs : ~StringLess(other, n)

\* the volume after the files of a directory (b bytes) have been deleted
Freed(v, b) ==
  [v EXCEPT !.bytesAvailable =
     IF v.bytesAvailable + b > v.bytesTotal THEN v.bytesTotal
     ELSE v.bytesAvailable + b]
\* the volume after the container header or one encoded packet (one byte
\* here) has been written
Written(v) ==
  [v EXCEPT !.bytesAvailable = IF @ > 0 THEN @ - 1 ELSE 0]

\* The state a StorageManager call works on: st = [storage, dirs, label, log,
\* last]; cx = [min, rec, conn, env] is what it reads but does not change:
\* the threshold, MonitorPage's m_isRecording, whether MonitorPage's slots are
\* connected, and the outcome a removal of each directory would have.  A
\* call returns [st, r].  An emit runs the connected slot before it returns.
Emit(st, sig, sigArgs) ==
  [st EXCEPT !.log = Append(@, [sig |-> sig, args |-> sigArgs])]

RECURSIVE checkStorageSpace(_, _), cleanupOldestDay(_, _),
          onLowStorageSpace(_, _), onCleanupCompleted(_, _)

\* checkStorageSpace that says nothing about a volume of size zero
checkStorageSpace_SilentOnZeroTotal(st, cx) ==
  LET v == st.storage
      percent == availablePercent(v.bytesAvailable, v.bytesTotal)
      Low(a, t, p) ==
        LET emitted == Emit(st, "lowStorageSpace", <<a, t, p>>)
            after   == IF cx.conn THEN onLowStorageSpace(emitted, cx)
                       ELSE emitted
        IN  [st |-> [after EXCEPT !.last = "false"], r |-> FALSE]
  IN  IF ~v.valid \/ ~v.ready THEN Low(0, 0, Zero)
      ELSE IF ~(v.bytesTotal > 0)
        THEN [st |-> [st EXCEPT !.last = "false"], r |-> FALSE]
      ELSE IF DoubleLess(percent, cx.min)
        THEN Low(v.bytesAvailable, v.bytesTotal, percent)
      ELSE [st |-> [st EXCEPT !.last = "true"], r |-> TRUE]

\* StorageManager::checkStorageSpace
checkStorageSpace(st, cx) ==
  LET v == st.storage
      percent == availablePercent(v.bytesAvailable, v.bytesTotal)
      Low(a, t, p) ==
        LET emitted == Emit(st, "lowStorageSpace", <<a, t, p>>)
            after   == IF cx.conn THEN onLowStorageSpace(emitted, cx)
                       ELSE emitted
        IN  [st |-> [after EXCEPT !.last = "false"], r |-> FALSE]
  IN  IF ~v.valid \/ ~v.ready THEN Low(0, 0, Zero)
      ELSE IF ~(v.bytesTotal > 0) THEN Low(v.bytesAvailable, v.bytesTotal, Zero)
      ELSE IF DoubleLess(percent, cx.min)
        THEN Low(v.bytesAvailable, v.bytesTotal, percent)
      ELSE [st |-> [st EXCEPT !.last = "true"], r |-> TRUE]

\* cleanupOldestDay that reports a removal that failed as completed
cleanupOldestDay_ReportsFailedAsCompleted(st, cx) ==
  LET oldestDirName == getOldestDateDir(st.dirs)
      Failed(s, why) ==
        [st |-> Emit(s, "cleanupFailed", <<why>>), r |-> FALSE]
  IN  IF oldestDirName = EmptyName THEN Failed(st, "noDateDir")
      ELSE IF cx.env[oldestDirName] = "vanished"
        THEN Failed([st EXCEPT !.dirs = @ \ {oldestDirName}], "notExists")
      ELSE IF cx.env[oldestDirName] = "removeFailed"
        THEN [st |-> Emit(st, "cleanupCompleted",
                          <<oldestDirName, DirBytes[oldestDirName]>>),
              r  |-> FALSE]
      ELSE LET removed ==
                 [st EXCEPT !.dirs = @ \ {oldestDirName},
                            !.storage = Freed(@, DirBytes[oldestDirName])]
               emitted ==
                 Emit(removed, "cleanupCompleted",
                      <<oldestDirName, DirBytes[oldestDirName]>>)
           IN  [st |-> IF cx.conn THEN onCleanupCompleted(emitted, cx)
                       ELSE emitted,
                r  |-> TRUE]

\* StorageManager::cleanupOldestDay
cleanupOldestDay(st, cx) ==
  LET oldestDirName == getOldestDateDir(st.dirs)
      Failed(s, why) ==
        [st |-> Emit(s, "cleanupFailed", <<why>>), r |-> FALSE]
  IN  IF oldestDirName = EmptyName THEN Failed(st, "noDateDir")
      ELSE IF cx.env[oldestDirName] = "vanished"
        THEN Failed([st EXCEPT !.dirs = @ \ {oldestDirName}], "notExists")
      ELSE IF cx.env[oldestDirName] = "removeFailed"
        THEN Failed(st, "removeFailed")
      ELSE LET removed ==
                 [st EXCEPT !.dirs = @ \ {oldestDirName},
                            !.storage = Freed(@, DirBytes[oldestDirName])]
               emitted ==
                 Emit(removed, "cleanupCompleted",
                      <<oldestDirName, DirBytes[oldestDirName]>>)
           IN  [st |-> IF cx.conn THEN onCleanupCompleted(emitted, cx)
                       ELSE emitted,
                r  |-> TRUE]

\* MonitorPage::onLowStorageSpace
onLowStorageSpace(st, cx) ==
  cleanupOldestDay(IF cx.rec THEN [st EXCEPT !.label = "recordingLow"] ELSE st,
                   cx).st

\* onCleanupCompleted that checks the space again whether or not a recording
\* is shown as short of space
onCleanupCompleted_AlwaysRechecks(st, cx) ==
  LET c == checkStorageSpace(st, cx)
  IN  IF c.r /\ cx.rec THEN [c.st EXCEPT !.label = "recording"] ELSE c.st

\* MonitorPage::onCleanupCompleted
onCleanupCompleted(st, cx) ==
  IF cx.rec /\ st.label = "recordingLow"
    THEN LET c == checkStorageSpace(st, cx)
         IN  IF c.r THEN [c.st EXCEPT !.label = "recording"] ELSE c.st
    ELSE st

\* StorageManager::performAutoCheck
performAutoCheck(st, cx) ==
  LET c1 == checkStorageSpace(st, cx)
  IN  IF c1.r THEN c1.st
      ELSE LET cleaned == cleanupOldestDay(c1.st, cx)
           IN  IF cleaned.r THEN checkStorageSpace(cleaned.st, cx).st
               ELSE cleaned.st

\* StorageGate that takes a successful cleanup for enough space
StorageGate_SkipsRecheck(st, cx) ==
  LET c1 == checkStorageSpace(st, cx)
  IN  IF c1.r THEN c1
      ELSE LET cleaned == cleanupOldestDay(c1.st, cx)
           IN  IF ~cleaned.r THEN cleaned
               ELSE [st |-> cleaned.st, r |-> TRUE]

\* the storage check at the top of MonitorPage::startRecording:
\* if (!check()) { cleaned = cleanup(); if (!cleaned || !check()) return; }
StorageGate(st, cx) ==
  LET c1 == checkStorageSpace(st, cx)
  IN  IF c1.r THEN c1
      ELSE LET cleaned == cleanupOldestDay(c1.st, cx)
           IN  IF ~cleaned.r THEN cleaned
               ELSE checkStorageSpace(cleaned.st, cx)

\* the state and context of a call made now, with removal outcomes env
CallState ==
  [storage |-> storage, dirs |-> dirs, label |-> m_recordStatusLabel,
   log |-> <<>>, last |-> lastCheck]
CallContext(env) ==
  [min |-> m_minFreeSpacePercent, rec |-> mp_isRecording,
   conn |-> slotsConnected, env |-> env]
\* the variables after a call that ended in state st
Outcome(st) ==
  /\ storage' = st.storage /\ dirs' = st.dirs
  /\ m_recordStatusLabel' = st.label
  /\ sigLog' = st.log /\ lastCheck' = st.last

\* ------------------------------- the segment file (MonitorPage start/stop)
\* QDateTime::toString: "HH" and "mm" are two digits with a leading zero
Pad2(n) == <<48 + (n \div 10), 48 + (n % 10)>>
HHmm(t) == Pad2(t[1]) \o <<58>> \o Pad2(t[2])             \* "HH:mm"
HHmmss(t) == Pad2(t[1]) \o Pad2(t[2]) \o Pad2(t[3])       \* "HHmmss"
Mp4 == <<46, 109, 112, 52>>                               \* ".mp4"
RecordPrefix == <<114, 101, 99, 111, 114, 100, 95>>       \* "record_"

\* the file MonitorPage::startRecording names for a segment started at t in
\* the date directory dir: <dir>/record_HHmmss.mp4
WorkingFile(dir, t) == <<dir, RecordPrefix \o HHmmss(t) \o Mp4>>

\* QString(): m_currentVideoFile before the first recording
EmptyPath == <<EmptyName, EmptyName>>

NoSegment ==
  [m_isRecording |-> FALSE, m_recordingStartTime |-> <<0, 0, 0>>,
   recordingEndTime |-> <<0, 0>>, m_currentVideoFile |-> EmptyPath,
   files |-> <<>>, log |-> "none"]

\* what QFile::rename can do when the target name is free
RenameResults == { "renamed", "failed" }

\* RenameSegment without the test for an existing file of the new name
RenameSegment_NoExistsCheck(seg, end, o) ==
  LET startTimeStr == HHmm(seg.m_recordingStartTime)
      endTimeStr == HHmm(end)
      newVideoFileName == startTimeStr \o <<45>> \o endTimeStr \o Mp4
      old == seg.m_currentVideoFile
      newVideoFilePath == <<old[1], newVideoFileName>>
      stopped == [seg EXCEPT !.m_isRecording = FALSE, !.recordingEndTime = end]
  IN  IF old = EmptyPath THEN [stopped EXCEPT !.log = "info"]
      ELSE IF o = "renamed" /\ old \in DOMAIN seg.files
        THEN [stopped EXCEPT
                !.files = [q \in (DOMAIN seg.files \ {old}) \cup {newVideoFilePath} |->
                             IF q = newVideoFilePath THEN seg.files[old]
                             ELSE seg.files[q]],
                !.m_currentVideoFile = newVideoFilePath,
                !.log = "info"]
      ELSE [stopped EXCEPT !.log = "warning"]

\* MonitorPage::stopRecording from m_isRecording = false on: the end time,
\* the new name <start HH:mm>-<end HH:mm>.mp4 in the directory of
\* m_currentVideoFile; nothing but a warning if a file of that name exists;
\* else QFile::rename, which moves the file and updates m_currentVideoFile
\* when it succeeds and leaves all as it was (with a warning) when it fails.
\* files maps each path to the content of the file stored there.
RenameSegment(seg, end, o) ==
  LET startTimeStr == HHmm(seg.m_recordingStartTime)
      endTimeStr == HHmm(end)
      newVideoFileName == startTimeStr \o <<45>> \o endTimeStr \o Mp4
      old == seg.m_currentVideoFile
      newVideoFilePath == <<old[1], newVideoFileName>>
      stopped == [seg EXCEPT !.m_isRecording = FALSE, !.recordingEndTime = end]
  IN  IF old = EmptyPath THEN [stopped EXCEPT !.log = "info"]
      ELSE IF newVideoFilePath \in DOMAIN seg.files
        THEN [stopped EXCEPT !.log = "warning"]
      ELSE IF o = "renamed" /\ old \in DOMAIN seg.files
        THEN [stopped EXCEPT
                !.files = [q \in (DOMAIN seg.files \ {old}) \cup {newVideoFilePath} |->
                             IF q = newVideoFilePath THEN seg.files[old]
                             ELSE seg.files[q]],
                !.m_currentVideoFile = newVideoFilePath,
                !.log = "info"]
      ELSE [stopped EXCEPT !.log = "warning"]

\* times at which a segment is started (h, m, s) and stopped (h, m)
StartTimes == { <<9, 5, 0>>, <<14, 30, 59>>, <<23, 59, 59>>, <<0, 0, 7>> }
EndTimes == { <<9, 5>>, <<9, 35>>, <<15, 0>>, <<0, 0>>, <<0, 29>> }

\* names of finished segments that may lie in a date directory
FinishedNames ==
  { HHmm(st) \o <<45>> \o HHmm(en) \o Mp4 :
      st \in { <<9, 5, 0>>, <<23, 59, 59>> }, en \in { <<9, 5>>, <<0, 29>> } }

\* A segment being recorded: started at one of StartTimes into today's
\* directory, its working file on the volume (or gone), beside finished
\* segments in today's directory and in an older one.  Contents: 1 is the
\* segment being recorded, 2 and 3 are earlier recordings.
SegmentInputs ==
  { [m_isRecording |-> TRUE, m_recordingStartTime |-> st,
     recordingEndTime |-> <<0, 0>>,
     m_currentVideoFile |-> WorkingFile(TodayDir, st),
     files |-> [q \in (IF present THEN {WorkingFile(TodayDir, st)} ELSE {})
                       \cup { <<TodayDir, n>> : n \in here }
                       \cup { <<D20230101, n>> : n \in there } |->
                  IF q = WorkingFile(TodayDir, st) THEN 1
                  ELSE IF q[1] = TodayDir THEN 2 ELSE 3],
     log |-> "none"] :
      st \in StartTimes, present \in BOOLEAN,
      here \in SUBSET FinishedNames, there \in { {}, FinishedNames } }

\* ------------------------------------------------ camera (v4l2_wrapper.c)
FRAMEBUFFER_COUNT == 3
Buffers == 0..(FRAMEBUFFER_COUNT - 1)

\* values of buf_infos[i].start: NULL, MAP_FAILED, or the address at which
\* buffer index of the device opened as fd is mapped
NullPtr   == [kind |-> "NULL", fd |-> 0, index |-> 0]
MapFailed == [kind |-> "MAP_FAILED", fd |-> 0, index |-> 0]
Addr(fd, i) == [kind |-> "addr", fd |-> fd, index |-> i]

\* frame sizes the driver may settle on for the 640x480 asked of VIDIOC_S_FMT
FrameFormats == { <<640, 480>>, <<320, 240>> }

\* How far v4l2_init gets: fail names the call that fails ("none": no call
\* fails), index the buffer whose VIDIOC_QUERYBUF or mmap fails, count the
\* number of buffers the driver grants to VIDIOC_REQBUFS (at least one,
\* fewer or more than asked for), frame the size VIDIOC_S_FMT reports.
DeviceOutcomes ==
  { [fail |-> f, index |-> 0, count |-> FRAMEBUFFER_COUNT, frame |-> <<640, 480>>] :
      f \in {"open", "QUERYCAP", "notCapture", "notStreaming", "S_FMT",
             "pixelformat", "REQBUFS"} }
  \cup { [fail |-> "none", index |-> 0, count |-> c, frame |-> fr] :
           c \in 1..(FRAMEBUFFER_COUNT + 1), fr \in FrameFormats }
  \cup { [fail |-> f, index |-> k, count |-> FRAMEBUFFER_COUNT,
          frame |-> <<640, 480>>] :
           f \in {"QUERYBUF", "mmap"}, k \in Buffers }

\* How far v4l2_stream_on gets
StreamOutcomes ==
  { [fail |-> "none", index |-> 0], [fail |-> "STREAMON", index |-> 0] }
  \cup { [fail |-> "QBUF", index |-> k] : k \in Buffers }

\* the loop of v4l2_init_buffer from buffer i on; a = [b, maps, ops, r] is
\* buf_infos, the mappings made, the operations made and the result so far.
\* The driver refuses VIDIOC_QUERYBUF for an index it has not granted.
RECURSIVE MapLoop(_, _, _, _, _)
MapLoop(i, fd, length, o, a) ==
  IF i >= FRAMEBUFFER_COUNT THEN a
  ELSE LET queried == [a EXCEPT !.ops = @ \cup {<<"QUERYBUF", i>>}]
       IN  IF i >= o.count \/ (o.fail = "QUERYBUF" /\ o.index = i)
             THEN [queried EXCEPT !.r = -1]
             ELSE LET tried == [queried EXCEPT !.ops = @ \cup {<<"mmap", i>>},
                                               !.b[i].length = length]
                  IN  IF o.fail = "mmap" /\ o.index = i
                        THEN [tried EXCEPT !.b[i].start = MapFailed, !.r = -1]
                        ELSE MapLoop(i + 1, fd, length, o,
                                     [tried EXCEPT
                                        !.b[i].start = Addr(fd, i),
                                        !.maps = @ \cup {Addr(fd, i)}])

\* v4l2_init_buffer: VIDIOC_REQBUFS, then VIDIOC_QUERYBUF and mmap for each
\* of FRAMEBUFFER_COUNT buffers; return -1 at the first failure
v4l2_init_buffer(fd, b, length, o) ==
  IF o.fail = "REQBUFS"
    THEN [b |-> b, maps |-> {}, ops |-> {}, count |-> 0, r |-> -1]
    ELSE MapLoop(0, fd, length, o,
                 [b |-> b, maps |-> {}, ops |-> {}, count |-> o.count, r |-> 0])

\* values of errno this model tells apart: EAGAIN and any other error
ErrnoValues == { "EAGAIN", "EIO" }

\* no buffer dequeued, errno not set by v4l2_get_frame
NoDqbuf == [index |-> -1, errno |-> "none"]

\* What one call of v4l2_get_frame meets.  data: the caller's pointers are
\* valid ("buf") or one is NULL; dq: VIDIOC_DQBUF succeeds with a buffer the
\* driver owns on the streaming device, or fails with EAGAIN or another
\* error; rq: the VIDIOC_QBUF that gives the buffer back succeeds or fails;
\* left: errno after the fprintf that reports a failed ioctl (a library
\* call may change errno).
FrameOutcomes ==
  { [data |-> "null", dq |-> "EAGAIN", index |-> 0, rq |-> "ok", left |-> "EAGAIN"],
    [data |-> "buf", dq |-> "EAGAIN", index |-> 0, rq |-> "ok", left |-> "EAGAIN"] }
  \cup { [data |-> "buf", dq |-> "error", index |-> 0, rq |-> "ok", left |-> e] :
           e \in ErrnoValues }
  \cup { [data |-> "buf", dq |-> "ok", index |-> i, rq |-> "ok", left |-> "EIO"] :
           i \in { k \in Buffers : v4l2_fd \in streaming /\ <<v4l2_fd, k>> \in queued } }
  \cup { [data |-> "buf", dq |-> "ok", index |-> i, rq |-> "error", left |-> e] :
           i \in { k \in Buffers : v4l2_fd \in streaming /\ <<v4l2_fd, k>> \in queued },
           e \in ErrnoValues }

\* int v4l2_get_frame(data, width, height) meeting io: the value returned
\* (r), the caller's frame, the driver's buffers, the buffer operations made
\* and dqbuf.index/errno when it returns
get_frame(io) ==
  LET none == [r |-> -1, frame |-> frame, queued |-> queued, ops |-> bufOps,
               dqbuf |-> NoDqbuf]
      i == io.index
      taken == [none EXCEPT !.queued = queued \ {<<v4l2_fd, i>>},
                            !.ops = bufOps \cup {<<"DQBUF", i>>},
                            !.dqbuf = [index |-> i, errno |-> "none"]]
      given == [taken EXCEPT !.ops = @ \cup {<<"QBUF", i>>},
                             !.queued = IF io.rq = "ok"
                                          THEN @ \cup {<<v4l2_fd, i>>} ELSE @]
  IN  IF v4l2_fd < 0 \/ is_capturing = 0 THEN none
      ELSE IF io.data = "null" THEN none
      ELSE IF io.dq = "EAGAIN" THEN [none EXCEPT !.dqbuf.errno = "EAGAIN"]
      ELSE IF io.dq = "error" THEN [none EXCEPT !.dqbuf.errno = io.left]
      ELSE IF i >= FRAMEBUFFER_COUNT THEN taken
      ELSE IF buf_infos[i].start = NullPtr THEN given
      ELSE LET converted == [given EXCEPT !.frame = [data |-> buf_infos[i].start,
                                                     width |-> frm_width,
                                                     height |-> frm_height]]
           IN  IF io.rq = "ok" THEN [converted EXCEPT !.r = 0]
               ELSE [converted EXCEPT !.dqbuf.errno = io.left]

\* the statics of v4l2_wrapper.c when the program is loaded, no device open
CameraLoaded ==
  /\ v4l2_fd = -1
  /\ buf_infos = [i \in Buffers |-> [start |-> NullPtr, length |-> 0]]
  /\ frm_width = 0 /\ frm_height = 0 /\ is_capturing = 0
  /\ openFds = {} /\ mappings = {} /\ streaming = {}
  /\ reqbuf = 0 /\ bufOps = {} /\ nOpens = 0
  /\ vcall = "none" /\ vret = 0
  /\ queued = {} /\ dqbuf = NoDqbuf
  /\ frame = [data |-> NullPtr, width |-> 0, height |-> 0]

\* ------------------------------------------------------------ initial state
\* RecordingThread and StorageManager as constructed (threshold 10).  After
\* MonitorPage's constructor the signals of the StorageManager are connected
\* to MonitorPage's slots, and startAutoCheck(600000) has started the check
\* timer and run its first performAutoCheck, which found enough space.
ProgramConstructed ==
  /\ m_isRecording = FALSE /\ m_shouldExit = FALSE /\ m_frameCount = 0
  /\ m_filePath = 0 /\ m_width = 0 /\ m_height = 0
  /\ handles = NullHandles
  /\ m_segmentTimer = [exists |-> FALSE, active |-> FALSE]
  /\ m_frameQueue = <<>> /\ m_mutex = "none" /\ m_queueMutex = "none"
  /\ mp_isRecording = FALSE /\ errPending = 0
  /\ mpc = "idle" /\ mstack = <<>> /\ args = NoArgs /\ ret = "none"
  /\ wpc = "notStarted" /\ frameData = NoFrame /\ isRecording = FALSE /\ pts = 0
  /\ segState = [s \in Segs |-> "unused"] /\ curSeg = 0 /\ nInit = 0
  /\ ptsLog = [s \in Segs |-> <<>>]
  /\ nAccepted = [s \in Segs |-> 0] /\ nSent = 0 /\ nDropped = 0 /\ leaked = FALSE /\ memErr = FALSE
  /\ lastError = "none"
  /\ m_recordStatusLabel = "idle" /\ m_currentVideoFile = 0
  /\ renamed = FALSE /\ sigLog = <<>>
  /\ m_minFreeSpacePercent = 10

Constructed == ProgramConstructed /\ CameraLoaded /\ segment = NoSegment

\* MonitorPage after its constructor
PageConstructed ==
  /\ Constructed
  /\ m_checkTimer = TRUE /\ slotsConnected = TRUE /\ lastCheck = "true"
  /\ src = <<>> /\ dst = <<>>
  /\ dirs = {D20221231, D20230101, NotADate}

\* a volume with ample free space
Init ==
  /\ PageConstructed
  /\ storage = [valid |-> TRUE, ready |-> TRUE,
                bytesAvailable |-> 50, bytesTotal |-> 100]

\* return from a RecordingThread method to whoever called it
Return ==
  /\ mpc = "ret"
  /\ mpc' = Head(mstack) /\ mstack' = Tail(mstack)
  /\ args' = NoArgs
  /\ UNCHANGED <<camVars, segment, rtVars, handles, m_segmentTimer, m_frameQueue, mtxVars,
                 mpVars, smVars, fsVars, errPending, ret, wVars, segVars, obsVars>>

\* ------------------------------------------------ RecordingThread::initRecorder
\* the step of initRecorder that fails, or "ok"
InitOutcomes ==
  { "ok", "ctxFail", "noCodec", "codecAllocFail", "openFail", "streamFail",
    "paramsFail", "avioFail", "headerFail", "frameAllocFail", "frameBufFail",
    "packetFail", "swsFail" }

\* the handles initRecorder has assigned to when it returns with outcome o
Assigned(o) ==
  CASE o \in {"ctxFail", "noCodec"} -> {"m_formatContext"}
    [] o \in {"codecAllocFail", "openFail", "streamFail", "paramsFail",
              "avioFail", "headerFail"} -> {"m_formatContext", "m_codecContext"}
    [] o \in {"frameAllocFail", "frameBufFail"} ->
              {"m_formatContext", "m_codecContext", "m_frame"}
    [] o = "packetFail" ->
              {"m_formatContext", "m_codecContext", "m_frame", "m_packet"}
    [] OTHER -> HandleNames

\* the value each assigned handle is left with when initRecorder returns
InitLeaves(o) ==
  CASE o = "ok" -> [n \in HandleNames |-> "live"]
    \* avformat_free_context(m_formatContext) without resetting the pointer
    [] o \in {"noCodec", "codecAllocFail"} ->
         [n \in HandleNames |-> IF n = "m_formatContext" THEN "freed" ELSE "null"]
    \* the converter failure frees packet, frame and container, leaves the
    \* container pointer set and does not free the codec context
    [] o = "swsFail" ->
         [n \in HandleNames |->
            CASE n = "m_formatContext" -> "freed"
              [] n = "m_codecContext"  -> "live"
              [] OTHER                 -> "null"]
    [] OTHER -> [n \in HandleNames |-> "null"]

initRecorder(h, o) ==
  [n \in HandleNames |-> IF n \in Assigned(o) THEN InitLeaves(o)[n] ELSE h[n]]

\* an assignment over a pointer to a live object loses that object
InitLeaks(h, o) == \E n \in Assigned(o) : h[n] = "live"

\* --------------------------------------------- RecordingThread::startRecording
\* QMutexLocker locker(&m_mutex)
StartLock ==
  /\ mpc = "sr_lock" /\ m_mutex = "none"
  /\ m_mutex' = "main" /\ mpc' = "sr_check"
  /\ UNCHANGED <<camVars, segment, rtVars, handles, m_segmentTimer, m_frameQueue, m_queueMutex,
                 mpVars, smVars, fsVars, errPending, mstack, args, ret, wVars, segVars,
                 obsVars>>

\* StartCheck with the assignments moved in front of the m_isRecording test
StartCheck_AssignsFirst ==
  /\ mpc = "sr_check"
  /\ m_filePath' = args.path /\ m_width' = args.width
  /\ m_height' = args.height /\ m_frameCount' = 0
  /\ m_shouldExit' = FALSE
  /\ IF m_isRecording
       THEN ret' = "false" /\ mpc' = "ret" /\ m_mutex' = "none"
       ELSE mpc' = "sr_init" /\ UNCHANGED <<m_mutex, ret>>
  /\ UNCHANGED <<camVars, segment, m_isRecording, handles, m_segmentTimer, m_frameQueue,
                 m_queueMutex, mpVars, smVars, fsVars, errPending, mstack, args, wVars,
                 segVars, obsVars>>

\* if (m_isRecording) return false;  otherwise store the arguments and reset
\* the counters
StartCheck ==
  /\ mpc = "sr_check"
  /\ IF m_isRecording
       THEN /\ ret' = "false" /\ mpc' = "ret" /\ m_mutex' = "none"
            /\ UNCHANGED rtVars
       ELSE /\ m_filePath' = args.path /\ m_width' = args.width
            /\ m_height' = args.height /\ m_frameCount' = 0
            /\ m_shouldExit' = FALSE
            /\ mpc' = "sr_init"
            /\ UNCHANGED <<m_isRecording, m_mutex, ret>>
  /\ UNCHANGED <<camVars, segment, handles, m_segmentTimer, m_frameQueue, m_queueMutex,
                 mpVars, smVars, fsVars, errPending, mstack, args, wVars, segVars,
                 obsVars>>

\* if (!initRecorder()) return false;
\* recordError is emitted on the caller thread: MonitorPage's slot runs inside
\* the emit, and its stopRecording() returns at once because MonitorPage only
\* calls startRecording with its own m_isRecording false.
StartInit ==
  /\ mpc = "sr_init"
  /\ \E o \in InitOutcomes :
       /\ handles' = initRecorder(handles, o)
       /\ leaked' = (leaked \/ InitLeaks(handles, o))
       /\ nInit' = nInit + 1
       /\ IF o = "ok"
            THEN /\ segState' = [segState EXCEPT ![nInit + 1] = "open"]
                 /\ curSeg' = nInit + 1
                 /\ storage' = Written(storage)
                 /\ mpc' = "sr_commit"
                 /\ UNCHANGED <<lastError, ret, m_mutex>>
            ELSE /\ segState' = [segState EXCEPT ![nInit + 1] = "failed"]
                 /\ curSeg' = 0
                 /\ lastError' = "init"
                 /\ ret' = "false" /\ mpc' = "ret" /\ m_mutex' = "none"
                 /\ UNCHANGED storage
  /\ UNCHANGED <<camVars, segment, rtVars, m_segmentTimer, m_frameQueue, m_queueMutex,
                 mpVars, smVars, dirs, renamed, errPending, mstack, args,
                 wVars, ptsLog, nAccepted, nSent, nDropped, memErr>>

\* m_isRecording = true; arm the segment timer; start or wake the worker
StartCommit ==
  /\ mpc = "sr_commit"
  /\ m_isRecording' = TRUE
  /\ m_segmentTimer' = [exists |-> TRUE, active |-> TRUE]
  /\ wpc' = IF isRunning THEN Wake(wpc) ELSE "top"
  /\ ret' = "true" /\ mpc' = "ret" /\ m_mutex' = "none"
  /\ UNCHANGED <<camVars, segment, m_shouldExit, m_frameCount, m_filePath, m_width, m_height,
                 handles, m_frameQueue, m_queueMutex, mpVars, smVars, fsVars,
                 errPending, mstack, args, frameData, isRecording, pts,
                 segVars, obsVars>>

\* SegmentTimeout that also clears m_isRecording
SegmentTimeout_StopsRecording ==
  /\ mpc = "idle" /\ m_segmentTimer.active /\ nInit < MaxStarts
  /\ mpc' = "rot" /\ args' = [NoArgs EXCEPT !.path = m_filePath]
  /\ m_isRecording' = FALSE
  /\ UNCHANGED <<camVars, segment, m_shouldExit, m_frameCount, m_filePath, m_width, m_height,
                 handles, m_segmentTimer, m_frameQueue, mtxVars,
                 mpVars, smVars, fsVars, errPending, mstack, ret, wVars,
                 segVars, obsVars>>

\* the lambda connected to m_segmentTimer's timeout in startRecording:
\* emit recordingTimeReached30Minutes(m_filePath); the connected slot runs
\* next on the same thread
SegmentTimeout ==
  /\ mpc = "idle" /\ m_segmentTimer.active /\ nInit < MaxStarts
  /\ mpc' = "rot" /\ args' = [NoArgs EXCEPT !.path = m_filePath]
  /\ UNCHANGED <<camVars, segment, rtVars, handles, m_segmentTimer, m_frameQueue, mtxVars,
                 mpVars, smVars, fsVars, errPending, mstack, ret, wVars,
                 segVars, obsVars>>

\* ---------------------------------------------- RecordingThread::stopRecording
StopLock ==
  /\ mpc = "st_lock" /\ m_mutex = "none"
  /\ m_mutex' = "main" /\ mpc' = "st_body"
  /\ UNCHANGED <<camVars, segment, rtVars, handles, m_segmentTimer, m_frameQueue, m_queueMutex,
                 mpVars, smVars, fsVars, errPending, mstack, args, ret, wVars, segVars,
                 obsVars>>

\* StopBody that leaves the segment timer running
StopBody_KeepsTimer ==
  /\ mpc = "st_body"
  /\ IF ~m_isRecording
       THEN UNCHANGED <<m_isRecording, wpc>>
       ELSE /\ m_isRecording' = FALSE
            /\ wpc' = Wake(wpc)
  /\ ret' = "none" /\ mpc' = "ret" /\ m_mutex' = "none"
  /\ UNCHANGED <<camVars, segment, m_shouldExit, m_frameCount, m_filePath, m_width, m_height,
                 handles, m_segmentTimer, m_frameQueue, m_queueMutex,
                 mpVars, smVars, fsVars, errPending, mstack, args, frameData,
                 isRecording, pts, segVars, obsVars>>

\* if (!m_isRecording) return;  m_isRecording = false; stop the segment
\* timer; m_condition.wakeAll();
StopBody ==
  /\ mpc = "st_body"
  /\ IF ~m_isRecording
       THEN UNCHANGED <<m_isRecording, m_segmentTimer, wpc>>
       ELSE /\ m_isRecording' = FALSE
            /\ m_segmentTimer' = [m_segmentTimer EXCEPT !.active = FALSE]
            /\ wpc' = Wake(wpc)
  /\ ret' = "none" /\ mpc' = "ret" /\ m_mutex' = "none"
  /\ UNCHANGED <<camVars, segment, m_shouldExit, m_frameCount, m_filePath, m_width, m_height,
                 handles, m_frameQueue, m_queueMutex, mpVars, smVars, fsVars,
                 errPending, mstack, args, frameData, isRecording, pts,
                 segVars, obsVars>>

\* -------------------------------------------- RecordingThread::addFrameToQueue
\* AddCheck without the test of size
AddCheck_IgnoresSize ==
  /\ mpc = "af_check"
  /\ IF ~m_isRecording \/ args.data = "null"
       THEN ret' = "false" /\ mpc' = "ret"
       ELSE mpc' = "af_lock" /\ UNCHANGED ret
  /\ UNCHANGED <<camVars, segment, rtVars, handles, m_segmentTimer, m_frameQueue, mtxVars,
                 mpVars, smVars, fsVars, errPending, mstack, args, wVars, segVars,
                 obsVars>>

\* if (!m_isRecording || !frameData || size <= 0) return false;
AddCheck ==
  /\ mpc = "af_check"
  /\ IF ~m_isRecording \/ args.data = "null" \/ args.size <= 0
       THEN ret' = "false" /\ mpc' = "ret"
       ELSE mpc' = "af_lock" /\ UNCHANGED ret
  /\ UNCHANGED <<camVars, segment, rtVars, handles, m_segmentTimer, m_frameQueue, mtxVars,
                 mpVars, smVars, fsVars, errPending, mstack, args, wVars, segVars,
                 obsVars>>

\* QMutexLocker locker(&m_queueMutex)
AddLock ==
  /\ mpc = "af_lock" /\ m_queueMutex = "none"
  /\ m_queueMutex' = "main" /\ mpc' = "af_enq"
  /\ UNCHANGED <<camVars, segment, rtVars, handles, m_segmentTimer, m_frameQueue, m_mutex,
                 mpVars, smVars, fsVars, errPending, mstack, args, ret, wVars, segVars,
                 obsVars>>

\* m_frameQueue.enqueue(new FrameData(...)); m_condition.wakeOne(); return true;
AddEnqueue ==
  /\ mpc = "af_enq"
  /\ m_frameQueue' = Append(m_frameQueue, [id |-> TotalAccepted + 1, seg |-> nInit])
  /\ nAccepted' = [nAccepted EXCEPT ![nInit] = @ + 1]
  /\ wpc' = Wake(wpc)
  /\ ret' = "true" /\ mpc' = "ret" /\ m_queueMutex' = "none"
  /\ UNCHANGED <<camVars, segment, rtVars, handles, m_segmentTimer, m_mutex, mpVars, smVars, fsVars,
                 errPending, mstack, args, frameData, isRecording, pts,
                 segVars, ptsLog, nSent, nDropped, leaked, memErr, lastError>>

\* ------------------------------------------ RecordingThread::~RecordingThread
\* m_shouldExit = true; m_condition.wakeAll();   (after stopRecording())
DtorSignal ==
  /\ mpc = "d_exit"
  /\ m_shouldExit' = TRUE /\ wpc' = Wake(wpc) /\ mpc' = "d_wait"
  /\ UNCHANGED <<camVars, segment, m_isRecording, m_frameCount, m_filePath, m_width, m_height,
                 handles, m_segmentTimer, m_frameQueue, mtxVars, mpVars, smVars, fsVars,
                 errPending, mstack, args, ret, frameData, isRecording, pts,
                 segVars, obsVars>>

\* wait(); then empty the queue and delete the timer
DtorJoin ==
  /\ mpc = "d_wait" /\ wpc \in {"notStarted", "done"}
  /\ m_queueMutex = "none"
  /\ nDropped' = nDropped + Len(m_frameQueue)
  /\ m_frameQueue' = <<>>
  /\ m_segmentTimer' = [exists |-> FALSE, active |-> FALSE]
  /\ mpc' = "destroyed"
  /\ UNCHANGED <<camVars, segment, rtVars, handles, mtxVars, mpVars, smVars, fsVars, errPending, mstack,
                 args, ret, wVars, segVars, ptsLog, nAccepted, nSent, leaked,
                 memErr, lastError>>

\* ----------------------------------------------------- RecordingThread::run
\* while (!m_shouldExit)
WorkerTop ==
  /\ wpc = "top"
  /\ wpc' = IF m_shouldExit THEN "exit1" ELSE "lockQ"
  /\ UNCHANGED <<camVars, segment, rtVars, handles, m_segmentTimer, m_frameQueue, mtxVars,
                 mpVars, smVars, fsVars, errPending, mVars, frameData, isRecording, pts,
                 segVars, obsVars>>

\* WorkerLockQueue that looks at the queue only while recording, so that a
\* stop is cleaned up without draining the queue first
WorkerLockQueue_SkipsDrain ==
  /\ wpc = "lockQ" /\ m_queueMutex = "none"
  /\ m_queueMutex' = "worker"
  /\ wpc' = IF m_frameQueue = <<>> \/ ~m_isRecording THEN "readRec" ELSE "dequeue"
  /\ UNCHANGED <<camVars, segment, rtVars, handles, m_segmentTimer, m_frameQueue, m_mutex,
                 mpVars, smVars, fsVars, errPending, mVars, frameData, isRecording, pts,
                 segVars, obsVars>>

\* QMutexLocker locker(&m_queueMutex); if (m_frameQueue.isEmpty())
WorkerLockQueue ==
  /\ wpc = "lockQ" /\ m_queueMutex = "none"
  /\ m_queueMutex' = "worker"
  /\ wpc' = IF m_frameQueue = <<>> THEN "readRec" ELSE "dequeue"
  /\ UNCHANGED <<camVars, segment, rtVars, handles, m_segmentTimer, m_frameQueue, m_mutex,
                 mpVars, smVars, fsVars, errPending, mVars, frameData, isRecording, pts,
                 segVars, obsVars>>

\* m_mutex.lock(); bool isRecording = m_isRecording; m_mutex.unlock();
WorkerReadRecording ==
  /\ wpc = "readRec" /\ m_mutex = "none"
  /\ isRecording' = m_isRecording
  /\ wpc' = IF m_isRecording THEN "enterWait" ELSE "cleanup1"
  /\ UNCHANGED <<camVars, segment, rtVars, handles, m_segmentTimer, m_frameQueue, mtxVars,
                 mpVars, smVars, fsVars, errPending, mVars, frameData, pts,
                 segVars, obsVars>>

\* m_condition.wait(&m_queueMutex): release the queue mutex and block
WorkerWaitFrame ==
  /\ wpc = "enterWait"
  /\ m_queueMutex' = "none" /\ wpc' = "frameWait"
  /\ UNCHANGED <<camVars, segment, rtVars, handles, m_segmentTimer, m_frameQueue, m_mutex,
                 mpVars, smVars, fsVars, errPending, mVars, frameData, isRecording, pts,
                 segVars, obsVars>>

\* woken: re-acquire the queue mutex; if (m_frameQueue.isEmpty()) continue;
WorkerFrameWoken ==
  /\ wpc = "frameWoken" /\ m_queueMutex = "none"
  /\ IF m_frameQueue = <<>>
       THEN wpc' = "top" /\ UNCHANGED m_queueMutex
       ELSE wpc' = "dequeue" /\ m_queueMutex' = "worker"
  /\ UNCHANGED <<camVars, segment, rtVars, handles, m_segmentTimer, m_frameQueue, m_mutex,
                 mpVars, smVars, fsVars, errPending, mVars, frameData, isRecording, pts,
                 segVars, obsVars>>

\* frameData = m_frameQueue.dequeue();  (end of the locker's scope)
WorkerDequeue ==
  /\ wpc = "dequeue"
  /\ frameData' = Head(m_frameQueue) /\ m_frameQueue' = Tail(m_frameQueue)
  /\ m_queueMutex' = "none" /\ wpc' = "readRec2"
  /\ UNCHANGED <<camVars, segment, rtVars, handles, m_segmentTimer, m_mutex, mpVars, smVars, fsVars,
                 errPending, mVars, isRecording, pts, segVars, obsVars>>

\* m_mutex.lock(); isRecording = m_isRecording; m_mutex.unlock();
\* if (isRecording) processFrame(frameData);
WorkerCheckRecording ==
  /\ wpc = "readRec2" /\ m_mutex = "none"
  /\ isRecording' = m_isRecording
  /\ IF m_isRecording
       THEN wpc' = "process" /\ UNCHANGED nDropped
       ELSE wpc' = "delete" /\ nDropped' = nDropped + 1
  /\ UNCHANGED <<camVars, segment, rtVars, handles, m_segmentTimer, m_frameQueue, mtxVars,
                 mpVars, smVars, fsVars, errPending, mVars, frameData, pts,
                 segVars, ptsLog, nAccepted, nSent, leaked, memErr, lastError>>

\* a crash of the worker ends the process, the caller thread included
Died(w, m) == IF w = "crashed" THEN "crashed" ELSE m

\* the outcome of dereferencing the handles in hs: a null pointer is a crash,
\* a dangling pointer is undefined (crash, or carry on with stale memory)
Deref(hs) ==
  IF \E n \in hs : handles[n] = "null" THEN {"crash"}
  ELSE IF \E n \in hs : handles[n] = "freed" THEN {"crash", "stale"}
  ELSE {"fine"}

\* processFrame up to and including m_frame->pts = m_frameCount++
processFrame ==
  /\ wpc = "process"
  /\ IF ~m_isRecording
       THEN /\ wpc' = "delete" /\ nDropped' = nDropped + 1
            /\ UNCHANGED <<m_frameCount, pts, memErr>>
       ELSE \E d \in Deref({"m_swsContext", "m_frame"}) :
              IF d = "crash"
                THEN /\ wpc' = "crashed"
                     /\ UNCHANGED <<m_frameCount, pts, memErr, nDropped>>
                ELSE /\ pts' = m_frameCount
                     /\ m_frameCount' = m_frameCount + 1
                     /\ memErr' = (memErr \/ d = "stale")
                     /\ wpc' = "encode"
                     /\ UNCHANGED nDropped
  /\ mpc' = Died(wpc', mpc)
  /\ UNCHANGED <<camVars, segment, m_isRecording, m_shouldExit, m_filePath, m_width, m_height,
                 handles, m_segmentTimer, m_frameQueue, mtxVars, mpVars, smVars, fsVars,
                 errPending, mstack, args, ret, frameData, isRecording, segVars, ptsLog,
                 nAccepted, nSent, leaked, lastError>>

\* what avcodec_send_frame / avcodec_receive_packet / av_interleaved_write_frame
\* can do to one call of encodeFrame
EncodeOutcomes == { "ok", "sendFail", "recvFail", "writeFail" }

\* the frames sent to the codec of segment s, with one more
Sent(log, s, f, p) ==
  IF s \in Segs THEN [log EXCEPT ![s] = Append(@, <<f, p>>)] ELSE log

\* encodeFrame(m_frame): a failure emits recordError across threads (queued
\* to the thread MonitorPage lives in) and returns false; run() then deletes
\* the frame and carries on.  A packet written by av_interleaved_write_frame
\* takes space on the storage volume.
encodeFrame ==
  /\ wpc = "encode"
  /\ \E d \in Deref({"m_codecContext", "m_packet", "m_formatContext"}) :
       IF d = "crash"
         THEN /\ wpc' = "crashed"
              /\ UNCHANGED <<ptsLog, nSent, errPending, lastError, memErr,
                             storage>>
         ELSE \E o \in EncodeOutcomes :
                /\ ptsLog' = Sent(ptsLog, curSeg, frameData.id, pts)
                /\ nSent' = nSent + 1
                /\ memErr' = (memErr \/ d = "stale")
                /\ IF o = "ok"
                     THEN /\ storage' = Written(storage)
                          /\ UNCHANGED <<errPending, lastError>>
                     ELSE /\ errPending' = errPending + 1 /\ lastError' = o
                          /\ UNCHANGED storage
                /\ wpc' = "delete"
  /\ mpc' = Died(wpc', mpc)
  /\ UNCHANGED <<camVars, segment, rtVars, handles, m_segmentTimer, m_frameQueue, mtxVars,
                 mpVars, smVars, dirs, renamed, mstack, args, ret, frameData,
                 isRecording, pts, segVars, nAccepted, nDropped, leaked>>

\* delete frameData;
WorkerDelete ==
  /\ wpc = "delete"
  /\ frameData' = NoFrame /\ wpc' = "top"
  /\ UNCHANGED <<camVars, segment, rtVars, handles, m_segmentTimer, m_frameQueue, mtxVars,
                 mpVars, smVars, fsVars, errPending, mVars, isRecording, pts,
                 segVars, obsVars>>

\* --------------------------------------------- RecordingThread::cleanupRecorder
\* first half: if (m_codecContext && m_formatContext) { encodeFrame(nullptr);
\* av_write_trailer; avio_closep }
Finalize(next) ==
  IF handles["m_codecContext"] = "null" \/ handles["m_formatContext"] = "null"
    THEN /\ wpc' = next
         /\ UNCHANGED <<segState, errPending, lastError, memErr>>
    ELSE \E d \in Deref({"m_codecContext", "m_packet", "m_formatContext"}) :
           IF d = "crash"
             THEN /\ wpc' = "crashed"
                  /\ UNCHANGED <<segState, errPending, lastError, memErr>>
             ELSE \E o \in EncodeOutcomes :
                    /\ IF o = "ok"
                         THEN UNCHANGED <<errPending, lastError>>
                         ELSE errPending' = errPending + 1 /\ lastError' = o
                    /\ memErr' = (memErr \/ d = "stale")
                    /\ segState' = IF d = "fine" /\ curSeg \in Segs
                                     THEN [segState EXCEPT ![curSeg] = "finalized"]
                                     ELSE segState
                    /\ wpc' = next

\* second half: free every non-null handle and reset it
Release(next) ==
  \E d \in (IF \E n \in HandleNames : handles[n] = "freed"
              THEN {"crash", "stale"} ELSE {"fine"}) :
    IF d = "crash"
      THEN wpc' = "crashed" /\ UNCHANGED <<handles, curSeg, memErr>>
      ELSE /\ handles' = NullHandles /\ curSeg' = 0
           /\ memErr' = (memErr \/ d = "stale")
           /\ wpc' = next

\* cleanupRecorder() in the idle branch of run(), m_queueMutex still held
WorkerCleanupFinalize ==
  /\ wpc = "cleanup1" /\ Finalize("cleanup2")
  /\ mpc' = Died(wpc', mpc)
  /\ UNCHANGED <<camVars, segment, rtVars, handles, m_segmentTimer, m_frameQueue, mtxVars,
                 mpVars, smVars, fsVars, mstack, args, ret, frameData, isRecording, pts, curSeg,
                 nInit, ptsLog, nAccepted, nSent, nDropped, leaked>>

WorkerCleanupRelease ==
  /\ wpc = "cleanup2" /\ Release("idleLock")
  /\ mpc' = Died(wpc', mpc)
  /\ UNCHANGED <<camVars, segment, rtVars, m_segmentTimer, m_frameQueue, mtxVars, mpVars, smVars, fsVars,
                 errPending, mstack, args, ret, frameData, isRecording, pts, segState,
                 nInit, ptsLog, nAccepted, nSent, nDropped, leaked, lastError>>

\* m_mutex.lock(); m_condition.wait(&m_mutex): block with m_mutex released
\* and m_queueMutex still held
WorkerWaitIdle ==
  /\ wpc = "idleLock" /\ m_mutex = "none"
  /\ wpc' = "idleWait"
  /\ UNCHANGED <<camVars, segment, rtVars, handles, m_segmentTimer, m_frameQueue, mtxVars,
                 mpVars, smVars, fsVars, errPending, mVars, frameData, isRecording, pts,
                 segVars, obsVars>>

\* woken: re-acquire m_mutex; m_mutex.unlock(); continue;  (releases m_queueMutex)
WorkerIdleWoken ==
  /\ wpc = "idleWoken" /\ m_mutex = "none"
  /\ m_queueMutex' = "none" /\ wpc' = "top"
  /\ UNCHANGED <<camVars, segment, rtVars, handles, m_segmentTimer, m_frameQueue, m_mutex,
                 mpVars, smVars, fsVars, errPending, mVars, frameData, isRecording, pts,
                 segVars, obsVars>>

\* cleanupRecorder() after the loop
WorkerExitFinalize ==
  /\ wpc = "exit1" /\ Finalize("exit2")
  /\ mpc' = Died(wpc', mpc)
  /\ UNCHANGED <<camVars, segment, rtVars, handles, m_segmentTimer, m_frameQueue, mtxVars,
                 mpVars, smVars, fsVars, mstack, args, ret, frameData, isRecording, pts, curSeg,
                 nInit, ptsLog, nAccepted, nSent, nDropped, leaked>>

WorkerExitRelease ==
  /\ wpc = "exit2" /\ Release("done")
  /\ mpc' = Died(wpc', mpc)
  /\ UNCHANGED <<camVars, segment, rtVars, m_segmentTimer, m_frameQueue, mtxVars, mpVars, smVars, fsVars,
                 errPending, mstack, args, ret, frameData, isRecording, pts, segState,
                 nInit, ptsLog, nAccepted, nSent, nDropped, leaked, lastError>>

run ==
  \/ WorkerTop \/ WorkerLockQueue \/ WorkerReadRecording \/ WorkerWaitFrame
  \/ WorkerFrameWoken \/ WorkerDequeue \/ WorkerCheckRecording
  \/ processFrame \/ encodeFrame \/ WorkerDelete
  \/ WorkerCleanupFinalize \/ WorkerCleanupRelease \/ WorkerWaitIdle
  \/ WorkerIdleWoken \/ WorkerExitFinalize \/ WorkerExitRelease

\* destructor entry: stopRecording(), then the exit handshake
DtorBegin ==
  /\ mpc = "idle"
  /\ mpc' = "st_lock" /\ mstack' = <<"d_exit">>
  /\ UNCHANGED <<camVars, segment, rtVars, handles, m_segmentTimer, m_frameQueue, mtxVars,
                 mpVars, smVars, fsVars, errPending, args, ret, wVars, segVars, obsVars>>

\* ------------------------------------- a client of RecordingThread's interface
ClientStart ==
  /\ mpc = "idle" /\ nInit < MaxStarts
  /\ \E in \in StartInputs :
       args' = [NoArgs EXCEPT !.path = in[1], !.width = in[2], !.height = in[3]]
  /\ mpc' = "sr_lock" /\ mstack' = <<"idle">>
  /\ UNCHANGED <<camVars, segment, rtVars, handles, m_segmentTimer, m_frameQueue, mtxVars,
                 mpVars, smVars, fsVars, errPending, ret, wVars, segVars, obsVars>>

ClientStop ==
  /\ mpc = "idle"
  /\ mpc' = "st_lock" /\ mstack' = <<"idle">>
  /\ UNCHANGED <<camVars, segment, rtVars, handles, m_segmentTimer, m_frameQueue, mtxVars,
                 mpVars, smVars, fsVars, errPending, args, ret, wVars, segVars, obsVars>>

ClientAddFrame ==
  /\ mpc = "idle" /\ TotalAccepted < MaxFrames
  /\ \E d \in DataInputs, sz \in SizeInputs :
       args' = [NoArgs EXCEPT !.data = d, !.size = sz]
  /\ mpc' = "af_check" /\ mstack' = <<"idle">>
  /\ UNCHANGED <<camVars, segment, rtVars, handles, m_segmentTimer, m_frameQueue, mtxVars,
                 mpVars, smVars, fsVars, errPending, ret, wVars, segVars, obsVars>>

\* the client's slot for recordingTimeReached30Minutes does nothing
ClientOnRotation ==
  /\ mpc = "rot"
  /\ mpc' = "idle" /\ args' = NoArgs
  /\ UNCHANGED <<camVars, segment, rtVars, handles, m_segmentTimer, m_frameQueue, mtxVars,
                 mpVars, smVars, fsVars, errPending, mstack, ret, wVars,
                 segVars, obsVars>>

\* the client's recordError slot takes the queued event and does nothing else
ClientOnRecordError ==
  /\ mpc = "idle" /\ errPending > 0
  /\ errPending' = errPending - 1
  /\ UNCHANGED <<camVars, segment, rtVars, handles, m_segmentTimer, m_frameQueue, mtxVars,
                 mpVars, smVars, fsVars, mVars, wVars, segVars, obsVars>>

\* ------------------------------------------------------------- MonitorPage
\* return from a MonitorPage method
MPReturn == mpc' = Head(mstack) /\ mstack' = Tail(mstack)

toggleRecording ==
  /\ mpc = "idle" /\ (mp_isRecording \/ nInit < MaxStarts)
  /\ mpc' = IF mp_isRecording THEN "mp_stop" ELSE "mp_start"
  /\ mstack' = <<"idle">>
  /\ UNCHANGED <<camVars, segment, rtVars, handles, m_segmentTimer, m_frameQueue, mtxVars,
                 mpVars, smVars, fsVars, errPending, args, ret, wVars, segVars, obsVars>>

\* the outcomes a removal of each date directory present can have during
\* one call: at most the removal of the oldest goes wrong
CleanupEnvs ==
  { [n \in { d \in dirs : exactMatch(d) } |->
       IF n = getOldestDateDir(dirs) THEN o ELSE "removed"] :
    o \in RemovalOutcomes }

\* the same for a call that begins with checkStorageSpace: nothing is
\* removed while the volume has enough space
RemovalEnvs ==
  IF checkStorageSpace(CallState, [CallContext(<<>>) EXCEPT !.conn = FALSE]).r
    THEN { <<>> }
    ELSE CleanupEnvs

\* MonitorPage::startRecording up to the call of RecordingThread::startRecording:
\* return if already recording; the storage check; create today's directory;
\* m_currentVideoFile = the new file; call startRecording with it
MPStartRecording ==
  /\ mpc = "mp_start"
  /\ IF mp_isRecording
       THEN /\ MPReturn
            /\ UNCHANGED <<args, m_recordStatusLabel, m_currentVideoFile,
                           sigLog, lastCheck, storage, dirs, renamed>>
       ELSE \E env \in RemovalEnvs :
              \E gate \in {StorageGate(CallState, CallContext(env))} :
                  /\ storage' = gate.st.storage
                  /\ m_recordStatusLabel' = gate.st.label
                  /\ sigLog' = gate.st.log /\ lastCheck' = gate.st.last
                  /\ IF ~gate.r
                       THEN /\ MPReturn
                            /\ dirs' = gate.st.dirs
                            /\ UNCHANGED <<args, m_currentVideoFile, renamed>>
                       ELSE /\ dirs' = gate.st.dirs \cup {TodayDir}
                            /\ m_currentVideoFile' = nInit + 1
                            /\ renamed' = FALSE
                            /\ args' = [NoArgs EXCEPT !.path = nInit + 1,
                                                      !.width = FrameSize[1],
                                                      !.height = FrameSize[2]]
                            /\ mpc' = "sr_lock"
                            /\ mstack' = <<"mp_start_ret">> \o mstack
  /\ UNCHANGED <<camVars, segment, rtVars, handles, m_segmentTimer, m_frameQueue, mtxVars,
                 mp_isRecording, m_minFreeSpacePercent, m_checkTimer,
                 slotsConnected, errPending, ret, wVars, segVars, obsVars>>

\* if (videoStarted) { ...; label "recording"; m_isRecording = true; }
MPStartReturn ==
  /\ mpc = "mp_start_ret"
  /\ IF ret = "true"
       THEN mp_isRecording' = TRUE /\ m_recordStatusLabel' = "recording"
       ELSE UNCHANGED <<mp_isRecording, m_recordStatusLabel>>
  /\ MPReturn
  /\ UNCHANGED <<camVars, segment, rtVars, handles, m_segmentTimer, m_frameQueue, mtxVars,
                 m_currentVideoFile, smVars, fsVars, errPending, args, ret,
                 wVars, segVars, obsVars>>

\* MonitorPage::stopRecording up to the call of RecordingThread::stopRecording
MPStopRecording ==
  /\ mpc = "mp_stop"
  /\ IF ~mp_isRecording
       THEN MPReturn
       ELSE mpc' = "st_lock" /\ mstack' = <<"mp_stop_ret">> \o mstack
  /\ UNCHANGED <<camVars, segment, rtVars, handles, m_segmentTimer, m_frameQueue, mtxVars,
                 mpVars, smVars, fsVars, errPending, args, ret, wVars, segVars, obsVars>>

\* what the rename of the segment file can do: the target name is taken
\* (no rename is tried), QFile::rename succeeds, or it fails
RenameOutcomes == { "targetExists", "renamed", "renameFailed" }

\* MonitorPage::stopRecording without the assignment m_isRecording = false
MPStopReturn_KeepsFlag ==
  /\ mpc = "mp_stop_ret"
  /\ UNCHANGED mp_isRecording
  /\ m_recordStatusLabel' = "idle"
  /\ \E o \in RenameOutcomes :
       renamed' = (m_currentVideoFile # 0 /\ o = "renamed")
  /\ MPReturn
  /\ UNCHANGED <<camVars, segment, rtVars, handles, m_segmentTimer, m_frameQueue, mtxVars,
                 m_currentVideoFile, smVars, storage, dirs, errPending, args,
                 ret, wVars, segVars, obsVars>>

\* MonitorPage::stopRecording after RecordingThread::stopRecording returned:
\* label "idle"; m_isRecording = false; rename m_currentVideoFile to its
\* final name; message box
MPStopReturn ==
  /\ mpc = "mp_stop_ret"
  /\ mp_isRecording' = FALSE
  /\ m_recordStatusLabel' = "idle"
  /\ \E o \in RenameOutcomes :
       renamed' = (m_currentVideoFile # 0 /\ o = "renamed")
  /\ MPReturn
  /\ UNCHANGED <<camVars, segment, rtVars, handles, m_segmentTimer, m_frameQueue, mtxVars,
                 m_currentVideoFile, smVars, storage, dirs, errPending, args,
                 ret, wVars, segVars, obsVars>>

\* MonitorPage::updateFrame with a captured frame while recording
updateFrame ==
  /\ mpc = "idle" /\ mp_isRecording /\ TotalAccepted < MaxFrames
  /\ args' = [NoArgs EXCEPT !.data = "buf",
                            !.size = FrameSize[1] * FrameSize[2] * 3]
  /\ mpc' = "af_check" /\ mstack' = <<"idle">>
  /\ UNCHANGED <<camVars, segment, rtVars, handles, m_segmentTimer, m_frameQueue, mtxVars,
                 mpVars, smVars, fsVars, errPending, ret, wVars, segVars, obsVars>>

\* the recordError slot connected in initMediaRecorder, run from the event
\* loop for an error the worker emitted: message box, then stopRecording()
onRecordError ==
  /\ mpc = "idle" /\ errPending > 0
  /\ errPending' = errPending - 1
  /\ mpc' = "mp_stop" /\ mstack' = <<"idle">>
  /\ UNCHANGED <<camVars, segment, rtVars, handles, m_segmentTimer, m_frameQueue, mtxVars,
                 mpVars, smVars, fsVars, args, ret, wVars, segVars, obsVars>>

\* onRecordingTimeReached30Minutes without the call of startRecording()
onRecordingTimeReached30Minutes_OnlyStops ==
  /\ mpc = "rot"
  /\ IF ~mp_isRecording
       THEN mpc' = "idle" /\ UNCHANGED mstack
       ELSE mpc' = "mp_stop" /\ mstack' = <<"rot_ret", "idle">>
  /\ args' = NoArgs
  /\ UNCHANGED <<camVars, segment, rtVars, handles, m_segmentTimer, m_frameQueue, mtxVars,
                 mpVars, smVars, fsVars, errPending, ret, wVars, segVars, obsVars>>

\* MonitorPage::onRecordingTimeReached30Minutes, connected directly to the
\* signal: if (!m_isRecording) return; stopRecording(); startRecording();
onRecordingTimeReached30Minutes ==
  /\ mpc = "rot"
  /\ IF ~mp_isRecording
       THEN mpc' = "idle" /\ UNCHANGED mstack
       ELSE mpc' = "mp_stop" /\ mstack' = <<"mp_start", "rot_ret", "idle">>
  /\ args' = NoArgs
  /\ UNCHANGED <<camVars, segment, rtVars, handles, m_segmentTimer, m_frameQueue, mtxVars,
                 mpVars, smVars, fsVars, errPending, ret, wVars, segVars, obsVars>>

\* the slot returns to the event loop
RotationReturn ==
  /\ mpc = "rot_ret"
  /\ MPReturn
  /\ UNCHANGED <<camVars, segment, rtVars, handles, m_segmentTimer, m_frameQueue, mtxVars,
                 mpVars, smVars, fsVars, errPending, args, ret, wVars, segVars, obsVars>>

\* onCheckTimeout that stops the recording when space stays low
onCheckTimeout_StopsRecording ==
  /\ mpc = "idle" /\ m_checkTimer
  /\ \E env \in RemovalEnvs :
       \E st \in {performAutoCheck(CallState, CallContext(env))} :
         /\ Outcome(st)
         /\ mp_isRecording' = (mp_isRecording /\ st.last = "true")
  /\ UNCHANGED <<camVars, segment, rtVars, handles, m_segmentTimer, m_frameQueue, mtxVars,
                 m_currentVideoFile, m_minFreeSpacePercent,
                 m_checkTimer, slotsConnected, renamed, errPending, mVars,
                 wVars, segVars, obsVars>>

\* StorageManager's check timer fires: performAutoCheck, with the MonitorPage
\* slots its signals are connected to
onCheckTimeout ==
  /\ mpc = "idle" /\ m_checkTimer
  /\ \E env \in RemovalEnvs :
       \E st \in {performAutoCheck(CallState, CallContext(env))} : Outcome(st)
  /\ UNCHANGED <<camVars, segment, rtVars, handles, m_segmentTimer, m_frameQueue, mtxVars,
                 mp_isRecording, m_currentVideoFile, m_minFreeSpacePercent,
                 m_checkTimer, slotsConnected, renamed, errPending, mVars,
                 wVars, segVars, obsVars>>

\* ---------------------------------------------------------- specifications
Next ==
  \/ ClientStart \/ ClientStop \/ ClientAddFrame \/ ClientOnRecordError
  \/ SegmentTimeout \/ ClientOnRotation
  \/ StartLock \/ StartCheck \/ StartInit \/ StartCommit
  \/ StopLock \/ StopBody
  \/ AddCheck \/ AddLock \/ AddEnqueue
  \/ DtorBegin \/ DtorSignal \/ DtorJoin
  \/ Return
  \/ WorkerTop \/ WorkerLockQueue \/ WorkerReadRecording \/ WorkerWaitFrame
  \/ WorkerFrameWoken \/ WorkerDequeue \/ WorkerCheckRecording
  \/ processFrame \/ encodeFrame \/ WorkerDelete
  \/ WorkerCleanupFinalize \/ WorkerCleanupRelease \/ WorkerWaitIdle
  \/ WorkerIdleWoken \/ WorkerExitFinalize \/ WorkerExitRelease

Spec == Init /\ [][Next]_vars

AppNext ==
  \/ toggleRecording \/ updateFrame \/ onRecordError
  \/ SegmentTimeout \/ onRecordingTimeReached30Minutes \/ RotationReturn
  \/ MPStartRecording \/ MPStartReturn \/ MPStopRecording \/ MPStopReturn
  \/ StartLock \/ StartCheck \/ StartInit \/ StartCommit
  \/ StopLock \/ StopBody
  \/ AddCheck \/ AddLock \/ AddEnqueue
  \/ DtorBegin \/ DtorSignal \/ DtorJoin
  \/ Return
  \/ WorkerTop \/ WorkerLockQueue \/ WorkerReadRecording \/ WorkerWaitFrame
  \/ WorkerFrameWoken \/ WorkerDequeue \/ WorkerCheckRecording
  \/ processFrame \/ encodeFrame \/ WorkerDelete
  \/ WorkerCleanupFinalize \/ WorkerCleanupRelease \/ WorkerWaitIdle
  \/ WorkerIdleWoken \/ WorkerExitFinalize \/ WorkerExitRelease

AppSpec == Init /\ [][AppNext]_vars

\* MonitorPage and its StorageManager on a volume that is at the threshold,
\* with the camera not capturing: no frame reaches the recorder, so the
\* steps that handle a frame cannot occur and are left out.
PageInit ==
  /\ PageConstructed
  /\ storage \in { [valid |-> TRUE, ready |-> TRUE,
                     bytesAvailable |-> a, bytesTotal |-> 100] : a \in {10, 11} }

PageNext ==
  \/ toggleRecording \/ onCheckTimeout
  \/ SegmentTimeout \/ onRecordingTimeReached30Minutes \/ RotationReturn
  \/ MPStartRecording \/ MPStartReturn \/ MPStopRecording \/ MPStopReturn
  \/ StartLock \/ StartCheck \/ StartInit \/ StartCommit
  \/ StopLock \/ StopBody
  \/ Return
  \/ WorkerTop \/ WorkerLockQueue \/ WorkerReadRecording \/ WorkerWaitFrame
  \/ WorkerFrameWoken
  \/ WorkerCleanupFinalize \/ WorkerCleanupRelease \/ WorkerWaitIdle
  \/ WorkerIdleWoken

PageSpec == PageInit /\ [][PageNext]_vars

\* MonitorPage and its StorageManager as in PageSpec, on volumes at and below
\* the threshold whose oldest date directory is large, empty or missing
CascadeInit ==
  /\ Constructed
  /\ m_checkTimer = TRUE /\ slotsConnected = TRUE /\ lastCheck = "true"
  /\ src = <<>> /\ dst = <<>>
  /\ \E in \in { <<10, {D20230101, NotADate}>>,
                  <<10, {D20221231, D20230101, Digits9}>>,
                  <<4, {D20230101, D20230215}>> } :
       /\ storage = [valid |-> TRUE, ready |-> TRUE,
                     bytesAvailable |-> in[1], bytesTotal |-> 100]
       /\ dirs = in[2]

CascadeSpec == CascadeInit /\ [][PageNext]_vars

\* ------------------------------------- a client of StorageManager's interface
\* A StorageManager with no slot connected to its signals and its timer not
\* started, on any volume and any set of subdirectories.
StorageInit ==
  /\ Constructed
  /\ m_checkTimer = FALSE /\ slotsConnected = FALSE /\ lastCheck = "none"
  /\ src = <<>> /\ dst = <<>>
  /\ \E in \in (VolumeInputs \X DirInputs)
                \cup ({[valid |-> TRUE, ready |-> TRUE,
                        bytesAvailable |-> 9, bytesTotal |-> 100]}
                        \X SUBSET DirNames) :
       storage = in[1] /\ dirs = in[2]

\* the client calls checkStorageSpace()
ClientCheck ==
  /\ mpc = "idle"
  /\ \E c \in {checkStorageSpace(CallState, CallContext(<<>>))} :
       /\ Outcome(c.st)
       /\ ret' = IF c.r THEN "true" ELSE "false"
  /\ mpc' = "sm_checked"
  /\ UNCHANGED <<camVars, segment, rtVars, handles, m_segmentTimer, m_frameQueue, mtxVars,
                 mp_isRecording, m_currentVideoFile, m_minFreeSpacePercent,
                 m_checkTimer, slotsConnected, renamed, errPending, mstack,
                 args, wVars, segVars, obsVars>>

\* the client calls cleanupOldestDay()
ClientCleanup ==
  /\ mpc = "idle"
  /\ \E env \in CleanupEnvs :
       \E c \in {cleanupOldestDay(CallState, CallContext(env))} :
         /\ Outcome(c.st)
         /\ ret' = IF c.r THEN "true" ELSE "false"
  /\ mpc' = "sm_cleaned"
  /\ UNCHANGED <<camVars, segment, rtVars, handles, m_segmentTimer, m_frameQueue, mtxVars,
                 mp_isRecording, m_currentVideoFile, m_minFreeSpacePercent,
                 m_checkTimer, slotsConnected, renamed, errPending, mstack,
                 args, wVars, segVars, obsVars>>

\* the call, or the timer's slot, returns
ClientResume ==
  /\ mpc \in {"sm_checked", "sm_cleaned", "sm_started", "sm_stopped",
              "sm_cycled"}
  /\ mpc' = "idle" /\ args' = NoArgs
  /\ UNCHANGED <<camVars, segment, rtVars, handles, m_segmentTimer, m_frameQueue, mtxVars,
                 mpVars, smVars, fsVars, errPending, mstack, ret, wVars,
                 segVars, obsVars>>

\* StorageManager::setMinFreeSpacePercent(percent)
setMinFreeSpacePercent ==
  /\ mpc = "idle"
  /\ \E percent \in PercentInputs :
       m_minFreeSpacePercent' = IF percent < 0 THEN 0
                                ELSE IF percent > 100 THEN 100 ELSE percent
  /\ UNCHANGED <<camVars, segment, rtVars, handles, m_segmentTimer, m_frameQueue, mtxVars,
                 mpVars, m_checkTimer, slotsConnected, sigLog, lastCheck,
                 fsVars, errPending, mVars, wVars, segVars, obsVars>>

\* startAutoCheck that starts the timer without a first check
startAutoCheck_TimerOnly ==
  /\ mpc = "idle"
  /\ \E interval \in IntervalInputs :
       /\ args' = [NoArgs EXCEPT !.interval = interval]
       /\ sigLog' = <<>>
       /\ m_checkTimer' = IF interval <= 0 THEN m_checkTimer ELSE TRUE
       /\ UNCHANGED <<storage, dirs, m_recordStatusLabel, lastCheck>>
  /\ mpc' = "sm_started"
  /\ UNCHANGED <<camVars, segment, rtVars, handles, m_segmentTimer, m_frameQueue, mtxVars,
                 mp_isRecording, m_currentVideoFile, m_minFreeSpacePercent,
                 slotsConnected, renamed, errPending, mstack, ret, wVars,
                 segVars, obsVars>>

\* StorageManager::startAutoCheck(interval): return at once if the interval
\* is not positive; else performAutoCheck(), then m_checkTimer->start(interval)
startAutoCheck ==
  /\ mpc = "idle"
  /\ \E interval \in IntervalInputs :
       /\ args' = [NoArgs EXCEPT !.interval = interval]
       /\ IF interval <= 0
            THEN /\ sigLog' = <<>>
                 /\ UNCHANGED <<storage, dirs, m_recordStatusLabel, lastCheck,
                                m_checkTimer>>
            ELSE /\ \E env \in RemovalEnvs :
                      \E st \in {performAutoCheck(CallState, CallContext(env))} :
                        Outcome(st)
                 /\ m_checkTimer' = TRUE
  /\ mpc' = "sm_started"
  /\ UNCHANGED <<camVars, segment, rtVars, handles, m_segmentTimer, m_frameQueue, mtxVars,
                 mp_isRecording, m_currentVideoFile, m_minFreeSpacePercent,
                 slotsConnected, renamed, errPending, mstack, ret, wVars,
                 segVars, obsVars>>

\* stopAutoCheck that switches the timer over
stopAutoCheck_Toggles ==
  /\ mpc = "idle"
  /\ m_checkTimer' = ~m_checkTimer
  /\ mpc' = "sm_stopped"
  /\ UNCHANGED <<camVars, segment, rtVars, handles, m_segmentTimer, m_frameQueue, mtxVars,
                 mpVars, m_minFreeSpacePercent, slotsConnected, sigLog,
                 lastCheck, fsVars, errPending, mstack, args, ret, wVars,
                 segVars, obsVars>>

\* StorageManager::stopAutoCheck(): stop the timer if it is active
stopAutoCheck ==
  /\ mpc = "idle"
  /\ m_checkTimer' = IF m_checkTimer THEN FALSE ELSE m_checkTimer
  /\ mpc' = "sm_stopped"
  /\ UNCHANGED <<camVars, segment, rtVars, handles, m_segmentTimer, m_frameQueue, mtxVars,
                 mpVars, m_minFreeSpacePercent, slotsConnected, sigLog,
                 lastCheck, fsVars, errPending, mstack, args, ret, wVars,
                 segVars, obsVars>>

\* m_checkTimer times out while it is active: its timeout signal runs the
\* slot performAutoCheck
CheckTimerTimeout ==
  /\ mpc = "idle" /\ m_checkTimer
  /\ \E env \in RemovalEnvs :
       \E st \in {performAutoCheck(CallState, CallContext(env))} : Outcome(st)
  /\ mpc' = "sm_cycled"
  /\ UNCHANGED <<camVars, segment, rtVars, handles, m_segmentTimer, m_frameQueue, mtxVars,
                 mp_isRecording, m_currentVideoFile, m_minFreeSpacePercent,
                 m_checkTimer, slotsConnected, renamed, errPending, mstack,
                 args, ret, wVars, segVars, obsVars>>

StorageNext ==
  \/ ClientCheck \/ ClientCleanup \/ ClientResume \/ setMinFreeSpacePercent

StorageSpec == StorageInit /\ [][StorageNext]_vars

\* A StorageManager with no slot connected, with the default threshold,
\* whose client also starts and stops the automatic check.
AutoCheckInit ==
  /\ Constructed
  /\ m_checkTimer = FALSE /\ slotsConnected = FALSE /\ lastCheck = "none"
  /\ src = <<>> /\ dst = <<>>
  /\ storage \in AutoCheckVolumes /\ dirs \in AutoCheckDirs

AutoCheckNext ==
  \/ ClientCheck \/ ClientCleanup \/ ClientResume
  \/ startAutoCheck \/ stopAutoCheck \/ CheckTimerTimeout

AutoCheckSpec == AutoCheckInit /\ [][AutoCheckNext]_vars

\* --------------------------------------- a client of v4l2_wrapper.c's interface
\* int v4l2_init(device): open; VIDIOC_QUERYCAP and the two capability
\* tests; v4l2_enum_formats; v4l2_set_format; v4l2_init_buffer.  After open
\* has succeeded every failure closes the descriptor, sets v4l2_fd = -1 and
\* returns -1.
v4l2_init ==
  /\ nOpens < MaxOpens
  /\ \E o \in DeviceOutcomes :
       LET fd == nOpens + 1
           formatSet == o.fail \notin {"open", "QUERYCAP", "notCapture",
                                       "notStreaming", "S_FMT", "pixelformat"}
           bufs == v4l2_init_buffer(fd, buf_infos,
                                    2 * o.frame[1] * o.frame[2], o)
           ok == formatSet /\ bufs.r = 0
       IN  /\ nOpens' = IF o.fail = "open" THEN nOpens ELSE fd
           /\ v4l2_fd' = IF ok THEN fd ELSE -1
           /\ openFds' = IF ok THEN openFds \cup {fd} ELSE openFds
           /\ frm_width' = IF formatSet THEN o.frame[1] ELSE frm_width
           /\ frm_height' = IF formatSet THEN o.frame[2] ELSE frm_height
           /\ buf_infos' = IF formatSet THEN bufs.b ELSE buf_infos
           /\ mappings' = IF formatSet THEN mappings \cup bufs.maps
                          ELSE mappings
           /\ bufOps' = IF formatSet THEN bufs.ops ELSE {}
           /\ reqbuf' = IF formatSet THEN bufs.count ELSE 0
           /\ vret' = IF ok THEN 0 ELSE -1
  /\ vcall' = "v4l2_init"
  /\ UNCHANGED <<is_capturing, streaming, queued, dqbuf, frame, src, dst, appVars, segment>>

\* v4l2_start_capture setting is_capturing before VIDIOC_STREAMON is made
v4l2_start_capture_FlagBeforeStreamOn ==
  /\ IF v4l2_fd < 0
       THEN vret' = -1 /\ UNCHANGED <<is_capturing, streaming, bufOps, queued>>
       ELSE IF is_capturing # 0
         THEN vret' = 0 /\ UNCHANGED <<is_capturing, streaming, bufOps, queued>>
       ELSE \E o \in StreamOutcomes :
              /\ bufOps' = bufOps \cup
                   { <<"QBUF", i>> :
                       i \in 0..(IF o.fail = "QBUF" THEN o.index
                                 ELSE FRAMEBUFFER_COUNT - 1) }
              /\ queued' = queued \cup
                   { <<v4l2_fd, i>> :
                       i \in 0..(IF o.fail = "QBUF" THEN o.index - 1
                                 ELSE FRAMEBUFFER_COUNT - 1) }
              /\ IF o.fail = "none"
                   THEN /\ is_capturing' = 1 /\ vret' = 0
                        /\ streaming' = streaming \cup {v4l2_fd}
                   ELSE /\ vret' = -1 /\ UNCHANGED streaming
                        /\ is_capturing' = IF o.fail = "STREAMON" THEN 1
                                           ELSE is_capturing
  /\ vcall' = "v4l2_start_capture"
  /\ UNCHANGED <<v4l2_fd, buf_infos, frm_width, frm_height, openFds, mappings,
                 reqbuf, nOpens, dqbuf, frame, src, dst, appVars, segment>>

\* int v4l2_start_capture(): -1 if no device is open, 0 if already
\* capturing, else v4l2_stream_on: VIDIOC_QBUF for each of FRAMEBUFFER_COUNT
\* buffers, VIDIOC_STREAMON, is_capturing = 1; -1 at the first failure
v4l2_start_capture ==
  /\ IF v4l2_fd < 0
       THEN vret' = -1 /\ UNCHANGED <<is_capturing, streaming, bufOps, queued>>
       ELSE IF is_capturing # 0
         THEN vret' = 0 /\ UNCHANGED <<is_capturing, streaming, bufOps, queued>>
       ELSE \E o \in StreamOutcomes :
              /\ bufOps' = bufOps \cup
                   { <<"QBUF", i>> :
                       i \in 0..(IF o.fail = "QBUF" THEN o.index
                                 ELSE FRAMEBUFFER_COUNT - 1) }
              /\ queued' = queued \cup
                   { <<v4l2_fd, i>> :
                       i \in 0..(IF o.fail = "QBUF" THEN o.index - 1
                                 ELSE FRAMEBUFFER_COUNT - 1) }
              /\ IF o.fail = "none"
                   THEN /\ is_capturing' = 1 /\ vret' = 0
                        /\ streaming' = streaming \cup {v4l2_fd}
                   ELSE vret' = -1 /\ UNCHANGED <<is_capturing, streaming>>
  /\ vcall' = "v4l2_start_capture"
  /\ UNCHANGED <<v4l2_fd, buf_infos, frm_width, frm_height, openFds, mappings,
                 reqbuf, nOpens, dqbuf, frame, src, dst, appVars, segment>>

\* v4l2_stream_off as far as the kernel and is_capturing go: nothing unless
\* capturing; off tells whether VIDIOC_STREAMOFF succeeds
StreamsAfterOff(off) ==
  IF is_capturing # 0 /\ off THEN streaming \ {v4l2_fd} ELSE streaming

\* a successful VIDIOC_STREAMOFF takes every buffer out of the driver's queues
QueuedAfterOff(off) ==
  IF is_capturing # 0 /\ off
    THEN { q \in queued : q[1] # v4l2_fd } ELSE queued

\* void v4l2_stop_capture(): nothing if no device is open, else
\* v4l2_stream_off
v4l2_stop_capture ==
  /\ IF v4l2_fd < 0
       THEN UNCHANGED <<is_capturing, streaming, queued>>
       ELSE /\ \E off \in BOOLEAN : /\ streaming' = StreamsAfterOff(off)
                                    /\ queued' = QueuedAfterOff(off)
            /\ is_capturing' = 0
  /\ vcall' = "v4l2_stop_capture" /\ vret' = 0
  /\ UNCHANGED <<v4l2_fd, buf_infos, frm_width, frm_height, openFds, mappings,
                 reqbuf, bufOps, nOpens, dqbuf, frame, src, dst, appVars, segment>>

\* void v4l2_cleanup(): v4l2_stop_capture(); if a device is open, munmap
\* every buffer whose start is neither NULL nor MAP_FAILED and set it to
\* NULL, then close the descriptor and set v4l2_fd = -1; in every case
\* is_capturing = 0 and the frame size = 0.  Closing the descriptor ends
\* the streaming it had started.
v4l2_cleanup ==
  /\ IF v4l2_fd < 0
       THEN UNCHANGED <<v4l2_fd, buf_infos, openFds, mappings, streaming, queued>>
       ELSE /\ buf_infos' =
                 [i \in Buffers |->
                    IF buf_infos[i].start \notin {NullPtr, MapFailed}
                      THEN [start |-> NullPtr, length |-> 0]
                      ELSE buf_infos[i]]
            /\ mappings' = mappings \ { buf_infos[i].start : i \in Buffers }
            /\ openFds' = openFds \ {v4l2_fd}
            /\ streaming' = streaming \ {v4l2_fd}
            /\ queued' = { q \in queued : q[1] # v4l2_fd }
            /\ v4l2_fd' = -1
  /\ is_capturing' = 0 /\ frm_width' = 0 /\ frm_height' = 0
  /\ vcall' = "v4l2_cleanup" /\ vret' = 0
  /\ UNCHANGED <<reqbuf, bufOps, nOpens, dqbuf, frame, src, dst, appVars, segment>>

\* int v4l2_get_frame(data, width, height), see get_frame
v4l2_get_frame ==
  /\ \E io \in FrameOutcomes :
       LET g == get_frame(io)
       IN  /\ vret' = g.r /\ frame' = g.frame /\ queued' = g.queued
           /\ bufOps' = g.ops /\ dqbuf' = g.dqbuf
  /\ vcall' = "v4l2_get_frame"
  /\ UNCHANGED <<v4l2_fd, buf_infos, frm_width, frm_height, is_capturing,
                 openFds, mappings, streaming, reqbuf, nOpens, src, dst, appVars, segment>>

CameraNext ==
  \/ v4l2_init \/ v4l2_start_capture \/ v4l2_stop_capture \/ v4l2_cleanup

CameraSpec == Init /\ [][CameraNext]_vars

\* MonitorPage::stopCapture, first part: if (m_isRecording) stopRecording();
\* stopRecording() returns at once when nothing is being recorded
stopCapture ==
  /\ mpc = "idle"
  /\ mpc' = "mp_stop" /\ mstack' = <<"sc_camera", "idle">>
  /\ UNCHANGED <<camVars, segment, rtVars, handles, m_segmentTimer, m_frameQueue, mtxVars,
                 mpVars, smVars, fsVars, errPending, args, ret, wVars, segVars, obsVars>>

\* MonitorPage::stopCapture, second part: v4l2_stop_capture(); v4l2_cleanup();
\* and the slot returns.  The stream is off after the second call whatever
\* STREAMOFF did in the first.
stopCaptureCamera ==
  /\ mpc = "sc_camera"
  /\ MPReturn
  /\ IF v4l2_fd < 0
       THEN UNCHANGED <<v4l2_fd, buf_infos, openFds, mappings, streaming, queued>>
       ELSE /\ buf_infos' =
                 [i \in Buffers |->
                    IF buf_infos[i].start \notin {NullPtr, MapFailed}
                      THEN [start |-> NullPtr, length |-> 0]
                      ELSE buf_infos[i]]
            /\ mappings' = mappings \ { buf_infos[i].start : i \in Buffers }
            /\ openFds' = openFds \ {v4l2_fd}
            /\ streaming' = streaming \ {v4l2_fd}
            /\ queued' = { q \in queued : q[1] # v4l2_fd }
            /\ v4l2_fd' = -1
  /\ is_capturing' = 0 /\ frm_width' = 0 /\ frm_height' = 0
  /\ vcall' = "v4l2_cleanup" /\ vret' = 0
  /\ UNCHANGED <<reqbuf, bufOps, nOpens, dqbuf, frame, src, dst, segment,
                 rtVars, handles, m_segmentTimer, m_frameQueue, mtxVars,
                 mpVars, smVars, fsVars, errPending, args, ret, wVars, segVars, obsVars>>

\* MonitorPage with every event that starts or stops a recording: the
\* button, the segment timer, an error of the worker and stopCapture
SessionNext ==
  \/ AppNext \/ stopCapture \/ stopCaptureCamera

SessionSpec == Init /\ [][SessionNext]_vars

\* A client that captures frames: v4l2_init has just returned 0 on the first
\* device opened, whatever size and number of buffers the driver settled on
CaptureInit ==
  /\ ProgramConstructed
  /\ m_checkTimer = TRUE /\ slotsConnected = TRUE /\ lastCheck = "true"
  /\ src = <<>> /\ dst = <<>>
  /\ dirs = {D20221231, D20230101, NotADate}
  /\ storage = [valid |-> TRUE, ready |-> TRUE,
                bytesAvailable |-> 50, bytesTotal |-> 100]
  /\ \E o \in DeviceOutcomes, opened \in {1}, loaded \in {[i \in Buffers |-> [start |-> NullPtr, length |-> 0]]} :
       LET bufs == v4l2_init_buffer(opened, loaded, 2 * o.frame[1] * o.frame[2], o)
       IN  /\ o.fail = "none" /\ bufs.r = 0
           /\ v4l2_fd = opened /\ nOpens = opened /\ openFds = {opened}
           /\ frm_width = o.frame[1] /\ frm_height = o.frame[2]
           /\ buf_infos = bufs.b /\ mappings = bufs.maps
           /\ bufOps = bufs.ops /\ reqbuf = bufs.count
  /\ is_capturing = 0 /\ streaming = {}
  /\ vcall = "v4l2_init" /\ vret = 0
  /\ queued = {} /\ dqbuf = NoDqbuf
  /\ frame = [data |-> NullPtr, width |-> 0, height |-> 0]
  /\ segment = NoSegment

CaptureNext ==
  \/ v4l2_start_capture \/ v4l2_get_frame \/ v4l2_stop_capture \/ v4l2_cleanup

CaptureSpec == CaptureInit /\ [][CaptureNext]_vars

\* ------------------------------------------- the segment rename at stop
\* MonitorPage::stopRecording is about to rename the segment it recorded
RenameInit ==
  /\ ProgramConstructed /\ CameraLoaded
  /\ m_checkTimer = TRUE /\ slotsConnected = TRUE /\ lastCheck = "true"
  /\ src = <<>> /\ dst = <<>>
  /\ dirs = {D20221231, D20230101, TodayDir}
  /\ storage = [valid |-> TRUE, ready |-> TRUE,
                bytesAvailable |-> 50, bytesTotal |-> 100]
  /\ segment \in SegmentInputs

\* the end of MonitorPage::stopRecording, see RenameSegment
StopSegment ==
  /\ segment.m_isRecording
  /\ \E end \in EndTimes, o \in RenameResults :
       segment' = RenameSegment(segment, end, o)
  /\ UNCHANGED <<appVars, camVars>>

RenameNext == StopSegment

RenameSpec == RenameInit /\ [][RenameNext]_vars

\* ----------------------------------------------------------- rgb565_to_rgb888
\* x >> s and x << s on non-negative ints, and the store into an unsigned char
ShiftR(x, s) == x \div (2 ^ s)
ShiftL(x, s) == x * (2 ^ s)
Byte(x) == x % 256
\* x & y and x | y, bit by bit
RECURSIVE BitAnd(_, _), BitOr(_, _)
BitAnd(x, y) ==
  IF x = 0 \/ y = 0 THEN 0
  ELSE (x % 2) * (y % 2) + 2 * BitAnd(x \div 2, y \div 2)
BitOr(x, y) ==
  IF x = 0 THEN y
  ELSE IF y = 0 THEN x
  ELSE (IF x % 2 = 1 \/ y % 2 = 1 THEN 1 ELSE 0) + 2 * BitOr(x \div 2, y \div 2)

\* rgb565_to_rgb888 that zero-fills the low bits of each byte
rgb565_to_rgb888_ZeroFills(pixel565, pixels) ==
  [k \in 1..(3 * pixels) |->
     LET rgb565_pixel == pixel565[(k + 2) \div 3]
         r == Byte(BitAnd(ShiftR(rgb565_pixel, 11), 31))
         g == Byte(BitAnd(ShiftR(rgb565_pixel, 5), 63))
         b == Byte(BitAnd(rgb565_pixel, 31))
     IN  CASE k % 3 = 1 -> Byte(ShiftL(r, 3))
           [] k % 3 = 2 -> Byte(ShiftL(g, 2))
           [] OTHER     -> Byte(ShiftL(b, 3))]

\* rgb565_to_rgb888(src, dst, pixels): the bytes dst[0 .. 3*pixels-1], here
\* numbered from 1
rgb565_to_rgb888(pixel565, pixels) ==
  [k \in 1..(3 * pixels) |->
     LET rgb565_pixel == pixel565[(k + 2) \div 3]
         r == Byte(BitAnd(ShiftR(rgb565_pixel, 11), 31))
         g == Byte(BitAnd(ShiftR(rgb565_pixel, 5), 63))
         b == Byte(BitAnd(rgb565_pixel, 31))
     IN  CASE k % 3 = 1 -> Byte(BitOr(ShiftL(r, 3), ShiftR(r, 2)))
           [] k % 3 = 2 -> Byte(BitOr(ShiftL(g, 2), ShiftR(g, 4)))
           [] OTHER     -> Byte(BitOr(ShiftL(b, 3), ShiftR(b, 2)))]

\* every value of an unsigned short as a frame of one pixel, and some
\* frames of several pixels
PixelInputs ==
  { <<p>> : p \in 0..(2 ^ 16 - 1) }
  \cup { <<0, 2 ^ 16 - 1>>, <<63488, 2016, 31>>, <<33808, 1057, 65503, 4660>> }

ConvertInit ==
  /\ Constructed
  /\ m_checkTimer = FALSE /\ slotsConnected = FALSE /\ lastCheck = "none"
  /\ storage = [valid |-> TRUE, ready |-> TRUE,
                bytesAvailable |-> 50, bytesTotal |-> 100]
  /\ dirs = {}
  /\ src \in PixelInputs /\ dst = <<>>

\* the call rgb565_to_rgb888(src, dst, pixels) that v4l2_get_frame makes on
\* the buffer it has dequeued
Convert ==
  /\ dst = <<>>
  /\ dst' = rgb565_to_rgb888(src, Len(src))
  /\ UNCHANGED <<v4l2_fd, buf_infos, frm_width, frm_height, is_capturing,
                 openFds, mappings, streaming, reqbuf, bufOps, nOpens, vcall,
                 vret, queued, dqbuf, frame, src, appVars, segment>>

ConvertNext == Convert

ConvertSpec == ConvertInit /\ [][ConvertNext]_vars


\* the steps of the caller thread that continue a call or a slot already
\* under way (everything except the arrival of a new event, and the storage
\* check of MonitorPage::startRecording, for which see FairAppSpec)
callerStep ==
  \/ MPStartReturn \/ MPStopRecording \/ MPStopReturn
  \/ onRecordingTimeReached30Minutes \/ RotationReturn
  \/ StartLock \/ StartCheck \/ StartInit \/ StartCommit
  \/ StopLock \/ StopBody
  \/ AddCheck \/ AddLock \/ AddEnqueue
  \/ DtorSignal \/ DtorJoin
  \/ Return

\* the operating system schedules both threads: a step of run(), or of a
\* call under way on the caller thread, that stays possible is eventually
\* taken; the event loop delivers a queued recordError.  The storage check
\* of MonitorPage::startRecording is a finite computation that nothing can
\* block, so the caller does not stay in front of it for ever.  Nothing
\* obliges the user or the timers to produce events.
FairAppSpec ==
  /\ AppSpec
  /\ WF_vars(run) /\ WF_vars(callerStep) /\ WF_vars(onRecordError)
  /\ []<>(mpc # "mp_start")

TypeOK ==
  /\ m_isRecording \in BOOLEAN /\ m_shouldExit \in BOOLEAN
  /\ m_frameCount \in 0..MaxFrames
  /\ handles \in [HandleNames -> HandleStates]
  /\ m_mutex \in {"none", "main", "worker"}
  /\ m_queueMutex \in {"none", "main", "worker"}
  /\ Len(m_frameQueue) <= MaxFrames
  /\ nInit \in 0..MaxStarts /\ curSeg \in 0..MaxStarts
  /\ nAccepted \in [Segs -> 0..MaxFrames]
  /\ nSent \in 0..MaxFrames /\ nDropped \in 0..MaxFrames
  /\ mp_isRecording \in BOOLEAN /\ renamed \in BOOLEAN
  /\ m_recordStatusLabel \in {"idle", "recording", "recordingLow"}
  /\ m_currentVideoFile \in 0..MaxStarts
  /\ m_minFreeSpacePercent \in 0..100 /\ m_checkTimer \in BOOLEAN
  /\ slotsConnected \in BOOLEAN /\ lastCheck \in {"none", "true", "false"}
  /\ storage.bytesAvailable >= 0 /\ dirs \subseteq DirNames
  /\ v4l2_fd \in {-1} \cup 1..MaxOpens /\ is_capturing \in {0, 1}
  /\ nOpens \in 0..MaxOpens /\ openFds \subseteq 1..MaxOpens
  /\ streaming \subseteq openFds
  /\ \A m \in mappings : m.kind = "addr" /\ m.index \in Buffers
  /\ queued \subseteq (1..MaxOpens) \X Buffers
  /\ dqbuf.index \in {-1} \cup Buffers
  /\ dqbuf.errno \in {"none"} \cup ErrnoValues

\* ------------------------------------------------------------------ claims
\* the caller is returning from startRecording / addFrameToQueue
ReturningFromStart == mpc = "ret" /\ args.path # 0
ReturningFromAdd   == mpc = "ret" /\ args.data # "none"

\* C1: a startRecording call that finds m_isRecording true returns false and
\* leaves the file path, the dimensions, the frame counter, the five handles,
\* the segment timer, the frame queue and the recording flag as they were.
C1_StartWhileRecordingChangesNothing ==
  [][(mpc = "sr_check" /\ m_isRecording /\ mpc' # "sr_check" /\ mpc' # "crashed")
       => /\ mpc' = "ret" /\ ret' = "false"
          /\ UNCHANGED <<m_isRecording, m_shouldExit, m_frameCount, m_filePath,
                         m_width, m_height, handles, m_segmentTimer,
                         m_frameQueue, segVars>>]_vars

\* a rejected start has returned while frames were already encoded
C1_Witness ==
  ReturningFromStart /\ ret = "false" /\ m_isRecording /\ m_frameCount > 0
  /\ m_filePath # args.path

\* C2: once stopRecording has cleared m_isRecording for an open segment, the
\* worker eventually flushes it, writes its trailer and closes its file.
\* Behaviours in which a later startRecording is attempted or the worker
\* faults are set aside, so that what remains is stop against the worker's
\* check-then-wait alone.
Stopped(s) ==
  curSeg = s /\ segState[s] = "open" /\ ~m_isRecording /\ mpc # "sr_commit"
C2_StopLeadsToCleanup ==
  \A s \in Segs :
    [](Stopped(s) => <>(segState[s] = "finalized" \/ nInit > s \/ wpc = "crashed"))

\* C3: the caller is never waiting for m_queueMutex inside addFrameToQueue
\* while the worker that holds it is suspended in a condition wait.
C3_ProducerNeverBlocked ==
  ~(mpc = "af_lock" /\ m_queueMutex = "worker" /\ wpc = "idleWait")

\* C4: the caller never runs initRecorder while the worker is in the middle
\* of processFrame/encodeFrame or of cleanupRecorder.
WorkerInsideCodec == wpc \in {"encode", "cleanup2", "exit2"}
C4_WorkerOwnsCodecState == ~(mpc = "sr_init" /\ WorkerInsideCodec)

\* C5: the frames sent to the codec of one segment are in push order and
\* carry the presentation indices 0, 1, 2, ...
C5_PtsFromZeroInPushOrder ==
  \A s \in Segs : \A i \in 1..Len(ptsLog[s]) :
    /\ ptsLog[s][i][2] = i - 1
    /\ i > 1 => ptsLog[s][i][1] > ptsLog[s][i - 1][1]

\* C6 (as claimed): a finalized segment has had every frame sent to its codec
\* that addFrameToQueue accepted while it was recorded.
C6_AllAcceptedFramesEncoded ==
  \A s \in Segs : segState[s] = "finalized" => Len(ptsLog[s]) = nAccepted[s]

\* the frame run() holds that is neither sent nor dropped yet
InFlight == IF frameData # NoFrame /\ wpc # "delete" THEN 1 ELSE 0

\* C6 (amended): every accepted frame is queued, held by the worker, sent to
\* the codec or deleted unencoded; when the worker finalizes a segment in its
\* idle branch none is queued or held, so sent + discarded = accepted.
C6_FramesSentOrDiscarded ==
  /\ nSent + nDropped + Len(m_frameQueue) + InFlight = TotalAccepted
  /\ wpc \in {"cleanup1", "cleanup2"} => nSent + nDropped = TotalAccepted

\* a segment was finalized with one frame encoded and one dropped at stop
C6_Witness ==
  /\ wpc = "cleanup2" /\ curSeg \in Segs /\ segState[curSeg] = "finalized"
  /\ nSent = 1 /\ nDropped = 1 /\ TotalAccepted = 2

\* C7: when initRecorder fails, startRecording returns false with
\* m_isRecording false, nothing leaked or freed twice, and all handles null.
InitFailed == ReturningFromStart /\ ret = "false" /\ ~m_isRecording
C7_InitFailureUnwinds ==
  InitFailed => (AllHandlesNull /\ ~leaked /\ ~memErr)

\* C8: while a recordError of the worker is waiting to be handled and the
\* recording has not been stopped, no further frame is sent to the codec.
C8_NoFrameSentAfterError ==
  [][(errPending > 0 /\ m_isRecording) => nSent' = nSent]_vars

\* C9: the startRecording that follows an encoder failure finds the pipeline
\* idle: m_isRecording false and all five handles released.
AfterFailure ==
  nInit > 0 /\ (segState[nInit] = "failed" \/ lastError \notin {"none", "init"})
C9_IdleAfterFailure ==
  (mpc = "sr_check" /\ AfterFailure) => (~m_isRecording /\ AllHandlesNull)

\* C10: addFrameToQueue returns false without touching the queue or waking
\* the worker when not recording, on a null pointer or on size <= 0, and
\* otherwise appends exactly one frame at the tail and returns true.
Rejects == ~m_isRecording \/ args.data = "null" \/ args.size <= 0
C10_AddFrameContract ==
  [][/\ (mpc = "af_check" /\ mpc' \notin {"af_check", "crashed"}) =>
          IF Rejects
            THEN mpc' = "ret" /\ ret' = "false" /\ UNCHANGED <<m_frameQueue, wpc>>
            ELSE mpc' = "af_lock" /\ UNCHANGED m_frameQueue
     /\ (mpc = "af_enq" /\ mpc' \notin {"af_enq", "crashed"}) =>
          /\ mpc' = "ret" /\ ret' = "true"
          /\ Len(m_frameQueue') = Len(m_frameQueue) + 1
          /\ SubSeq(m_frameQueue', 1, Len(m_frameQueue)) = m_frameQueue
          /\ args.data = "buf" /\ args.size > 0
     /\ (mpc \notin {"af_enq", "d_wait"}) => Len(m_frameQueue') <= Len(m_frameQueue)]_vars

\* a frame of size 0 was rejected while recording with a frame queued
C10_Witness ==
  /\ ReturningFromAdd /\ ret = "false" /\ m_isRecording
  /\ args.data = "buf" /\ args.size = 0 /\ m_frameQueue # <<>>

\* the caller is returning from stopRecording
ReturningFromStop == mpc = "ret" /\ ret = "none"

\* C11: stopRecording never waits for the worker (m_mutex is free whenever
\* the caller asks for it, and the body has no wait); when recording it
\* clears m_isRecording, stops the segment timer, wakes the worker and
\* returns; when not recording it changes no state.
C11_StopOnlySignals ==
  [][/\ (mpc = "st_lock" => m_mutex = "none")
     /\ (mpc = "st_body" /\ mpc' \notin {"st_body", "crashed"}) =>
          /\ mpc' = "ret"
          /\ IF m_isRecording
               THEN /\ ~m_isRecording'
                    /\ ~m_segmentTimer'.active
                    /\ m_segmentTimer'.exists = m_segmentTimer.exists
                    /\ wpc' = Wake(wpc)
                    /\ UNCHANGED <<m_shouldExit, m_frameCount, m_filePath,
                                   m_width, m_height, handles, m_frameQueue,
                                   m_queueMutex, segVars, obsVars>>
               ELSE UNCHANGED <<rtVars, handles, m_segmentTimer, m_frameQueue,
                                m_queueMutex, wVars, segVars, obsVars>>]_vars

\* stopRecording has returned from a running recording with the worker, which
\* was waiting for a frame, woken and the segment not yet finalized
C11_Witness ==
  /\ ReturningFromStop /\ ~m_isRecording /\ wpc = "frameWoken"
  /\ m_segmentTimer.exists /\ ~m_segmentTimer.active
  /\ curSeg \in Segs /\ segState[curSeg] = "open"

\* C12: MonitorPage::stopRecording gives the segment file its final name only
\* after the worker has drained the queue and closed the file: whenever the
\* rename happens, the container of that segment has been finalized.
C12_RenameAfterFinalize ==
  [][(renamed' /\ ~renamed) => segState[m_currentVideoFile] = "finalized"]_vars

\* C13: destroying a RecordingThread terminates: once the destructor has set
\* m_shouldExit and called wakeAll, its wait() for the worker returns (unless
\* the worker faults), however the wake-up interleaves with the worker's
\* check-then-wait.
C13_DestructorTerminates ==
  (mpc = "d_wait") ~> (mpc = "destroyed" \/ wpc = "crashed")

\* C14: the segment timer firing only signals the boundary: it emits
\* recordingTimeReached30Minutes with the path of the file being recorded and
\* leaves m_isRecording, the frame queue, the frame counter and the
\* codec/container handles (and the rest of RecordingThread) as they were.
C14_TimeoutOnlyEmits ==
  [][(mpc = "idle" /\ mpc' = "rot") =>
       /\ args'.path = m_filePath
       /\ UNCHANGED <<rtVars, handles, m_frameQueue, m_segmentTimer, mtxVars,
                      wVars, segVars>>]_vars

\* the timer has fired during a recording with a frame encoded and another
\* one queued
C14_Witness ==
  /\ mpc = "rot" /\ args.path = m_filePath /\ m_isRecording
  /\ m_frameCount > 0 /\ m_frameQueue # <<>> /\ handles["m_codecContext"] = "live"

\* the rotation slot is about to return
RotationHandled == mpc = "rot_ret"

C16_StartOnlyWithSpace ==
  [][(mpc = "mp_start" /\ mpc' \notin {"mp_start", "crashed"}
        /\ ~mp_isRecording) =>
       /\ (mpc' = "sr_lock") <=> (lastCheck' = "true")
       /\ (mpc' = "sr_lock") =>
            \/ sigLog' = <<>>
            \/ sigLog'[Len(sigLog')].sig = "cleanupCompleted"
       /\ (mpc' # "sr_lock") =>
            UNCHANGED <<rtVars, mp_isRecording, m_currentVideoFile, segVars>>]_vars

\* startRecording is being called after a cleanup and a re-check that passed
C16_Witness ==
  /\ mpc = "sr_lock" /\ Head(mstack) = "mp_start_ret" /\ lastCheck = "true"
  /\ sigLog # <<>> /\ sigLog[Len(sigLog)].sig = "cleanupCompleted"

\* C17: the periodic auto-check cycle and the low-space, cleanup-completed
\* and cleanup-failed handlers it runs never stop a recording: a step of the
\* event loop in which a storage check or a cleanup happened leaves
\* RecordingThread's m_isRecording, MonitorPage's m_isRecording and the
\* segment timer unchanged.
C17_StorageEventsKeepRecording ==
  [][(/\ mpc = "idle" /\ mpc' = "idle"
      /\ <<sigLog, lastCheck, dirs, m_recordStatusLabel>>'
           # <<sigLog, lastCheck, dirs, m_recordStatusLabel>>) =>
       UNCHANGED <<m_isRecording, mp_isRecording, m_segmentTimer>>]_vars

\* a recording goes on after an auto-check that found the space low, warned
\* on the status label and failed to clean up
C17_Witness ==
  /\ mpc = "idle" /\ mp_isRecording /\ m_isRecording
  /\ m_recordStatusLabel = "recordingLow" /\ lastCheck = "false"
  /\ \E i \in DOMAIN sigLog : sigLog[i].sig = "lowStorageSpace"
  /\ \E i \in DOMAIN sigLog : sigLog[i].sig = "cleanupFailed"

\* checkStorageSpace has returned to the client
Checked == mpc = "sm_checked"

\* C18: for every volume and every threshold, checkStorageSpace returns true
\* exactly when the volume is valid and ready, its total size is positive
\* and available * 100 >= threshold * total; it returns false otherwise,
\* also for a total size of zero.
C18_CheckIsExact ==
  Checked =>
    (ret = "true" <=>
       /\ storage.valid /\ storage.ready /\ storage.bytesTotal > 0
       /\ storage.bytesAvailable * 100
            >= m_minFreeSpacePercent * storage.bytesTotal)

\* the double p is the percentage a of t, up to the rounding of one division
\* and one multiplication
IsPercentOf(p, a, t) ==
  \/ DoubleFloor(p) = (100 * a) \div t
  \/ (100 * a) % t = 0 /\ DoubleFloor(p) = (100 * a) \div t - 1

\* C19: checkStorageSpace emits lowStorageSpace exactly once when it returns
\* false and never when it returns true; the signal carries (0, 0, 0.0) for
\* a volume that is invalid or not ready, and otherwise the available bytes,
\* the total bytes and the percentage computed from them (0.0 when the total
\* is zero).
C19_LowSpaceSignalled ==
  Checked =>
    IF ret = "true" THEN sigLog = <<>>
    ELSE /\ Len(sigLog) = 1 /\ sigLog[1].sig = "lowStorageSpace"
         /\ IF ~storage.valid \/ ~storage.ready
              THEN sigLog[1].args = <<0, 0, Zero>>
              ELSE /\ sigLog[1].args[1] = storage.bytesAvailable
                   /\ sigLog[1].args[2] = storage.bytesTotal
                   /\ IF storage.bytesTotal = 0
                        THEN sigLog[1].args[3] = Zero
                        ELSE IsPercentOf(sigLog[1].args[3],
                                         storage.bytesAvailable,
                                         storage.bytesTotal)

\* false has been returned, with one signal, for a valid volume of size zero
C19_Witness ==
  /\ Checked /\ ret = "false" /\ storage.valid /\ storage.ready
  /\ storage.bytesTotal = 0 /\ storage.bytesAvailable = 29
  /\ Len(sigLog) = 1 /\ sigLog[1].args = <<29, 0, Zero>>

\* a name of eight ASCII digits, and the number it spells
EightDigits(n) == Len(n) = 8 /\ \A i \in 1..8 : n[i] \in 48..57
RECURSIVE DateValue(_)
DateValue(n) ==
  IF n = <<>> THEN 0
  ELSE 10 * DateValue(SubSeq(n, 1, Len(n) - 1)) + (n[Len(n)] - 48)

CleanupCalled == mpc = "idle" /\ mpc' = "sm_cleaned"

C23_OneSignalPerCleanup ==
  [][CleanupCalled =>
       /\ Len(sigLog') = 1
       /\ sigLog'[1].sig \in {"cleanupCompleted", "cleanupFailed"}
       /\ ret' = "true" <=> sigLog'[1].sig = "cleanupCompleted"
       /\ sigLog'[1].sig = "cleanupCompleted" =>
            /\ sigLog'[1].args[1] \in dirs
            /\ dirs' = dirs \ {sigLog'[1].args[1]}
       /\ sigLog'[1].sig = "cleanupFailed" =>
            /\ storage' = storage
            /\ \/ dirs' = dirs
               \/ sigLog'[1].args = <<"notExists">> /\ dirs' \subseteq dirs]_vars

\* a removal has failed: false returned, cleanupFailed emitted, the date
\* directories all still there
C23_Witness ==
  /\ mpc = "sm_cleaned" /\ ret = "false"
  /\ sigLog = <<[sig |-> "cleanupFailed", args |-> <<"removeFailed">>]>>
  /\ {D20221231, D20230101} \subseteq dirs

\* the cleanupCompleted signals in a log: one per directory deleted
Completed(log) == { i \in DOMAIN log : log[i].sig = "cleanupCompleted" }

\* C24: one cycle of the automatic check, run by the check timer with
\* MonitorPage's slots connected, deletes at most one date directory.
C24_OneDirectoryPerCycle ==
  [][(mpc = "idle" /\ mpc' = "idle" /\ dirs' # dirs) =>
       Cardinality(Completed(sigLog')) <= 1]_vars

\* the signals of a log, in order
Signals(log) == [i \in DOMAIN log |-> log[i].sig]
\* the volume vol has the default share (10 percent) free
EnoughSpace(vol) ==
  /\ vol.valid /\ vol.ready /\ vol.bytesTotal > 0
  /\ vol.bytesAvailable * 100 >= 10 * vol.bytesTotal
\* log and last are what one complete cycle leaves on a volume that ends as
\* vol: a check that found space; or a check that did not, one cleanup, and
\* a second check if and only if the cleanup deleted a directory
OneCycle(log, last, vol) ==
  /\ last = IF EnoughSpace(vol) THEN "true" ELSE "false"
  /\ \/ Signals(log) = <<>> /\ last = "true"
     \/ Signals(log) = <<"lowStorageSpace", "cleanupFailed">> /\ last = "false"
     \/ Signals(log) = <<"lowStorageSpace", "cleanupCompleted">>
          /\ last = "true"
     \/ Signals(log) = <<"lowStorageSpace", "cleanupCompleted",
                         "lowStorageSpace">> /\ last = "false"

\* startAutoCheck has been called and has returned
AutoCheckStarted == mpc = "idle" /\ mpc' = "sm_started"

\* C25 as stated: startAutoCheck runs one complete cycle before it returns
\* and leaves the timer running, whatever the interval.
C25_CycleForEveryInterval ==
  [][AutoCheckStarted =>
       m_checkTimer' /\ OneCycle(sigLog', lastCheck', storage')]_vars

\* C25: startAutoCheck(interval) with interval > 0 runs one complete cycle
\* before it returns and leaves the timer running, and every expiry of the
\* running timer runs one complete cycle; with interval <= 0 it returns at
\* once: no check, no signal, nothing deleted, the timer as it was.
C25_StartRunsCycle ==
  [][/\ AutoCheckStarted =>
          IF args'.interval > 0
            THEN m_checkTimer' /\ OneCycle(sigLog', lastCheck', storage')
            ELSE /\ sigLog' = <<>>
                 /\ UNCHANGED <<m_checkTimer, lastCheck, storage, dirs>>
     /\ (mpc = "idle" /\ mpc' = "sm_cycled") =>
          /\ m_checkTimer /\ m_checkTimer'
          /\ OneCycle(sigLog', lastCheck', storage')]_vars

\* startAutoCheck(600000) has returned after a cycle of check, cleanup and
\* second check that left the volume short of space, with the timer running
C25_Witness ==
  /\ mpc = "sm_started" /\ args.interval = 600000 /\ m_checkTimer
  /\ Signals(sigLog) = <<"lowStorageSpace", "cleanupCompleted",
                         "lowStorageSpace">>
  /\ lastCheck = "false" /\ D20221231 \notin dirs

\* C26: stopAutoCheck leaves the timer inactive, whether or not it was
\* running, and changes nothing else, so that a second call changes
\* nothing; the timer becomes active again only by startAutoCheck, and a
\* cycle is run by the timer only while it is active.
C26_StopIsIdempotent ==
  [][/\ (mpc = "idle" /\ mpc' = "sm_stopped") =>
          /\ ~m_checkTimer'
          /\ UNCHANGED <<sigLog, lastCheck, storage, dirs,
                         m_minFreeSpacePercent>>
     /\ (m_checkTimer' /\ ~m_checkTimer) => mpc' = "sm_started"
     /\ (mpc = "idle" /\ mpc' = "sm_cycled") => m_checkTimer]_vars

\* stopAutoCheck has returned, the timer is inactive, and what the checks
\* made before it found is still on record
C26_Witness ==
  /\ mpc = "sm_stopped" /\ ~m_checkTimer /\ lastCheck # "none"

\* C27: for every 16-bit pixel p, with r = (p >> 11) & 31, g = (p >> 5) & 63
\* and b = p & 31 (the three fields of p read as numbers), the bytes written
\* are R = (r << 3) | (r >> 2), G = (g << 2) | (g >> 4), B = (b << 3) | (b >> 2):
\* the top 5/6/5 bits of each byte are the channel and the low 3/2/3 bits
\* are the channel's own top bits, so that 0 gives (0, 0, 0) and 0xFFFF gives
\* (255, 255, 255).
C27_ChannelsReplicated ==
  dst # <<>> =>
    /\ Len(dst) = 3 * Len(src)
    /\ \A i \in 1..Len(src) :
         LET p == src[i]
             r == p \div 2048
             g == (p \div 32) % 64
             b == p % 32
             R == dst[3 * i - 2]
             G == dst[3 * i - 1]
             B == dst[3 * i]
         IN  /\ R = 8 * r + r \div 4 /\ R \div 8 = r /\ R % 8 = r \div 4
             /\ G = 4 * g + g \div 16 /\ G \div 4 = g /\ G % 4 = g \div 16
             /\ B = 8 * b + b \div 4 /\ B \div 8 = b /\ B % 8 = b \div 4
             /\ p = 0 => <<R, G, B>> = <<0, 0, 0>>
             /\ p = 65535 => <<R, G, B>> = <<255, 255, 255>>

\* pure red, pure green and pure blue have been converted
C27_Witness ==
  /\ src = <<63488, 2016, 31>>
  /\ dst = <<255, 0, 0, 0, 255, 0, 0, 0, 255>>

\* C28: a v4l2_init that returns -1 leaves no buffer mapped that it has
\* mapped itself: the mappings after it are among those before it.
C28_FailedInitUnmaps ==
  [][(vcall' = "v4l2_init" /\ vret' = -1) => mappings' \subseteq mappings]_vars

\* C29: v4l2_init returns -1 when the driver has granted fewer than
\* FRAMEBUFFER_COUNT buffers, and no buffer index at or beyond the granted
\* count is queried, mapped or queued.
C29_FewerBuffersFail ==
  /\ (vcall = "v4l2_init" /\ reqbuf < FRAMEBUFFER_COUNT) => vret = -1
  /\ \A op \in bufOps : op[2] < reqbuf

\* C30: whenever v4l2_cleanup returns, the stream of the descriptor it was
\* called with is off and the descriptor is closed, no buffer is mapped,
\* v4l2_fd = -1 and is_capturing = 0; and a v4l2_cleanup that follows a
\* v4l2_cleanup changes nothing.
C30_CleanupReleasesAll ==
  [][vcall' = "v4l2_cleanup" =>
       /\ v4l2_fd \notin streaming' /\ v4l2_fd \notin openFds'
       /\ mappings' = {}
       /\ v4l2_fd' = -1 /\ is_capturing' = 0
       /\ vcall = "v4l2_cleanup" =>
            UNCHANGED <<v4l2_fd, buf_infos, frm_width, frm_height,
                        is_capturing, openFds, mappings, streaming>>]_vars

\* what the caller of v4l2_get_frame has in hand when it returns: the value
\* returned, its frame, and errno
Seen(g) == <<g.r, g.frame, g.dqbuf.errno>>

\* the calls with valid pointers whose VIDIOC_DQBUF finds no frame ready
NoFrameReady == { io \in FrameOutcomes : io.data = "buf" /\ io.dq = "EAGAIN" }
\* the calls with valid pointers whose VIDIOC_DQBUF fails otherwise, or whose
\* VIDIOC_QBUF fails
IoErrors ==
  { io \in FrameOutcomes :
      io.data = "buf" /\ (io.dq = "error" \/ (io.dq = "ok" /\ io.rq = "error")) }

\* C31: while capturing, what v4l2_get_frame hands its caller when no frame
\* is ready (EAGAIN on dequeue) differs from what it hands the caller on
\* every real dequeue or requeue error.
C31_NoFrameIsDistinct ==
  (v4l2_fd >= 0 /\ is_capturing # 0) =>
    \A again \in NoFrameReady, err \in IoErrors :
      Seen(get_frame(again)) # Seen(get_frame(err))

\* every buffer of the pool is in the driver's queue of the open device
PoolQueued(q) == \A i \in Buffers : <<v4l2_fd, i>> \in q

\* v4l2_start_capture gets as far as v4l2_stream_on
StreamOnCalled ==
  vcall' = "v4l2_start_capture" /\ v4l2_fd >= 0 /\ is_capturing = 0

\* C33: is_capturing goes from 0 to 1 only in a v4l2_start_capture that
\* returns 0 with every buffer of the pool queued and the stream on; a
\* v4l2_stream_on in which a VIDIOC_QBUF or the VIDIOC_STREAMON fails (a
\* buffer is left unqueued or the stream is off) returns -1 with
\* is_capturing still 0.
C33_CapturingOnlyAfterStreamOn ==
  [][/\ (is_capturing = 0 /\ is_capturing' = 1) =>
          /\ StreamOnCalled /\ vret' = 0
          /\ PoolQueued(queued') /\ v4l2_fd \in streaming'
     /\ StreamOnCalled =>
          /\ vret' \in {0, -1}
          /\ vret' = -1 => is_capturing' = 0
          /\ (~PoolQueued(queued') \/ v4l2_fd \notin streaming') =>
               (vret' = -1 /\ is_capturing' = 0)]_vars

\* v4l2_start_capture has queued the pool, started the stream and returned 0
C33_Witness ==
  /\ vcall = "v4l2_start_capture" /\ vret = 0 /\ is_capturing = 1
  /\ PoolQueued(queued) /\ v4l2_fd \in streaming
  /\ \A i \in Buffers : <<"QBUF", i>> \in bufOps

IsDigitPair(s, i, v) ==
  /\ s[i] \in 48..57 /\ s[i + 1] \in 48..57
  /\ (s[i] - 48) * 10 + (s[i + 1] - 48) = v

\* n reads HH:mm-HH:mm.mp4 with the hour and minute of st and of en
IsSegmentName(n, st, en) ==
  /\ Len(n) = 15
  /\ IsDigitPair(n, 1, st[1]) /\ n[3] = 58 /\ IsDigitPair(n, 4, st[2])
  /\ n[6] = 45
  /\ IsDigitPair(n, 7, en[1]) /\ n[9] = 58 /\ IsDigitPair(n, 10, en[2])
  /\ SubSeq(n, 12, 15) = <<46, 109, 112, 52>>

\* stopRecording has run on the segment being recorded
SegmentStopped == segment.m_isRecording /\ ~segment'.m_isRecording

\* path t is the target of the rename: in the directory of the working file,
\* named after the start time and the end time
IsTarget(t) ==
  /\ t[1] = segment.m_currentVideoFile[1]
  /\ IsSegmentName(t[2], segment.m_recordingStartTime,
                   segment'.recordingEndTime)

\* the working file keeps its name and no file changes
WorkingNameKept ==
  /\ segment'.files = segment.files
  /\ segment'.m_currentVideoFile = segment.m_currentVideoFile

\* the working file now bears the target name; every other file is as it was
RenamedToTarget ==
  LET work == segment.m_currentVideoFile
  IN  \E t \in DOMAIN segment'.files :
        /\ IsTarget(t) /\ t \notin DOMAIN segment.files
        /\ work \in DOMAIN segment.files
        /\ DOMAIN segment'.files = (DOMAIN segment.files \ {work}) \cup {t}
        /\ segment'.files[t] = segment.files[work]
        /\ \A q \in DOMAIN segment.files \ {work} :
             segment'.files[q] = segment.files[q]
        /\ segment'.m_currentVideoFile = t

\* C32 (as stated): at stop the target is <start HH:mm>-<end HH:mm>.mp4 in
\* the segment's directory; if a file of that name exists the working file
\* keeps its name and no file is changed; otherwise the working file is
\* renamed to the target.
C32_RenamedUnlessTargetExists ==
  [][SegmentStopped =>
       IF \E t \in DOMAIN segment.files : IsTarget(t)
         THEN WorkingNameKept
         ELSE RenamedToTarget]_vars

\* C32 (amended): as above, but when no file of the target name exists the
\* rename is attempted and may fail: then, too, the working file keeps its
\* name, no file is changed and only a warning is logged.
C32_RenameAtStop ==
  [][SegmentStopped =>
       /\ segment'.log \in {"info", "warning"}
       /\ IF \E t \in DOMAIN segment.files : IsTarget(t)
            THEN WorkingNameKept /\ segment'.log = "warning"
            ELSE \/ RenamedToTarget /\ segment'.log = "info"
                 \/ WorkingNameKept /\ segment'.log = "warning"]_vars

\* a segment was stopped while a file of the target name existed: the
\* working file and the older recording are both still there
C32_Witness ==
  /\ ~segment.m_isRecording /\ segment.log = "warning"
  /\ segment.m_currentVideoFile =
       WorkingFile(TodayDir, segment.m_recordingStartTime)
  /\ segment.m_currentVideoFile \in DOMAIN segment.files
  /\ \E t \in DOMAIN segment.files :
       /\ t[1] = TodayDir
       /\ IsSegmentName(t[2], segment.m_recordingStartTime,
                        segment.recordingEndTime)
       /\ segment.files[t] = 2

\* the session during which addFrameToQueue accepted frame f: frames are
\* numbered in the order they were accepted, session after session
SessionOf(f) ==
  CHOOSE s \in Segs : SumTo(nAccepted, s - 1) < f /\ f <= SumTo(nAccepted, s)

\* C35: every frame sent to the encoder of a segment was accepted during
\* that segment's session, and while a session is on the queue and the
\* worker hold no frame of an earlier session.
C35_NoFrameCrossesSessions ==
  /\ \A s \in Segs : \A k \in 1..Len(ptsLog[s]) :
       SessionOf(ptsLog[s][k][1]) = s
  /\ m_isRecording =>
       /\ \A k \in 1..Len(m_frameQueue) : m_frameQueue[k].seg = nInit
       /\ wpc \in {"process", "encode"} => frameData.seg = nInit

\* the segments whose container is open: header written, trailer not
OpenSegments(st) == { s \in Segs : st[s] = "open" }

\* C36: initRecorder runs only when no segment started earlier is still
\* open (its trailer unwritten, its file not closed), so that at most one
\* segment is open at any time.
C36_OneOpenSegment ==
  [][/\ nInit' # nInit => OpenSegments(segState) = {}
     /\ Cardinality(OpenSegments(segState')) <= 1]_vars

\* C37: while a recording is in progress the retention clean-up does not
\* remove the date directory that holds the file being recorded.
C37_ActiveDirectoryKept ==
  [][(mp_isRecording /\ m_isRecording /\ m_currentVideoFile # 0
        /\ TodayDir \in dirs) => TodayDir \in dirs']_vars

\* log is a chain of the storage events: lowStorageSpace and the result of
\* the clean-up it triggers, in turn; a failed clean-up ends it
IsChain(log) ==
  /\ Len(log) % 2 = 0
  /\ \A k \in 1..Len(log) :
       /\ (k % 2 = 1) => log[k].sig = "lowStorageSpace"
       /\ (k % 2 = 0) => log[k].sig \in {"cleanupCompleted", "cleanupFailed"}
       /\ (k < Len(log)) => log[k].sig # "cleanupFailed"

\* every cleanupCompleted in log names a directory of its own that was in
\* before and is not in after
OneDirectoryEach(log, before, after) ==
  \A k \in 1..Len(log) :
    log[k].sig = "cleanupCompleted" =>
      /\ log[k].args[1] \in before \ after
      /\ \A j \in 1..(k - 1) :
           log[j].sig = "cleanupCompleted" => log[j].args[1] # log[k].args[1]

\* C38: with MonitorPage's slots connected a call of checkStorageSpace made
\* in any state returns, whatever the removals do: its events form one
\* chain in which every re-entry follows the deletion of one more date
\* directory, so the chain is no longer than the date directories allow;
\* when nothing is being recorded it stops after one clean-up.
C38_CascadeTerminates ==
  slotsConnected =>
    \A env \in CleanupEnvs :
      \A c \in {checkStorageSpace(CallState, CallContext(env))} :
        /\ IsChain(c.st.log)
        /\ OneDirectoryEach(c.st.log, dirs, c.st.dirs)
        /\ Len(c.st.log) <= 2 * Cardinality({ d \in dirs : exactMatch(d) }) + 2
        /\ c.r = (c.st.log = <<>>)
        /\ ~mp_isRecording => Len(c.st.log) <= 2

\* a check made by the auto-check cycle while recording has cascaded: two
\* directories were deleted in its chain
C38_Witness ==
  /\ slotsConnected /\ mp_isRecording /\ Len(sigLog) >= 4
  /\ \A k \in 1..4 :
       sigLog[k].sig = IF k % 2 = 1 THEN "lowStorageSpace"
                       ELSE "cleanupCompleted"
  /\ sigLog[2].args[1] \notin dirs /\ sigLog[4].args[1] \notin dirs

\* C39: whenever the segment timer is active the RecordingThread is
\* recording.
C39_TimerOnlyWhileRecording ==
  m_segmentTimer.active => m_isRecording

\* a second segment is being recorded with the timer armed again, after a
\* stop that had stopped it
C39_Witness ==
  /\ m_segmentTimer.active /\ m_isRecording
  /\ nInit = 2 /\ segState[2] = "open" /\ mpc = "idle"

\* C40: whenever no MonitorPage slot is executing, MonitorPage's
\* m_isRecording equals RecordingThread's isRecording.
C40_FlagsAgree ==
  mpc = "idle" => (mp_isRecording = m_isRecording)

\* stopCapture has stopped the second segment, the one begun after the first
\* had been stopped, and both flags are false again
C40_Witness ==
  /\ mpc = "idle" /\ vcall = "v4l2_cleanup" /\ nInit = 2
  /\ ~mp_isRecording /\ ~m_isRecording
  /\ segState[1] # "open" /\ segState[2] # "open"

====
